---- MODULE Spec2Model ----
(***************************************************************************)
(* Label placement and collision avoidance of the symbol renderer:         *)
(*   src/src/symbol/collision_index.js   (CollisionIndex)                  *)
(*   src/src/symbol/projection.js        (updateLineLabels and helpers)    *)
(*                                                                         *)
(* Numbers.  The program computes in IEEE doubles.  The model computes in  *)
(* integers.  Every coordinate (tile units, pixels, clip space) is a       *)
(* fixed-point number with ONE = 1.0; a homogeneous vector is              *)
(* (x, y, z, ONE), so a matrix keeps its plain integer entries.  A         *)
(* quotient is rounded down (\div), the perspective division of project    *)
(* to the nearest; a ratio or a font scale is held in thousandths          *)
(* (1000 = 1.0); a non-finite value (a division by w = 0) is carried as a  *)
(* flag.  The inputs are chosen so that no comparison is decided by the    *)
(* rounding.  Line labels are drawn without terrain (getElevation = null). *)
(***************************************************************************)
EXTENDS Integers, Sequences, FiniteSets, TLC

VARIABLES
    transform,     \* CollisionIndex.transform (with fogState): fixed by the constructor
    grid,          \* CollisionIndex.grid: entries in insertion order
    ignoredGrid,   \* CollisionIndex.ignoredGrid
    last,          \* the most recent CollisionIndex call (or lone placeGlyphAlongLine call): arguments, result
    bucket,        \* the symbol bucket of updateLineLabels: placed symbols with flipState
    dynamicLayout, \* bucket.text.dynamicLayoutVertexArray after the last call
    frame,         \* the most recent updateLineLabels call: its arguments and a trace
    rotation       \* the camera bearing of a rotation in progress and the flips seen so far

civars == <<transform, grid, ignoredGrid, last>>
llvars == <<bucket, dynamicLayout, frame, rotation>>
vars == <<transform, grid, ignoredGrid, last, bucket, dynamicLayout, frame, rotation>>

----------------------------------------------------------------------------
(* Small arithmetic helpers *)

Abs(x) == IF x < 0 THEN -x ELSE x
Min(a, b) == IF a < b THEN a ELSE b
Max(a, b) == IF a > b THEN a ELSE b

\* 1.0 as a coordinate
ONE == 100

\* m[i] of a column-major 4x4 matrix held as a 16-tuple
At(m, i) == m[i + 1]

----------------------------------------------------------------------------
(* CollisionIndex: constants and the constructor *)

viewportPadding == 100

\* 0.55 in thousandths
minPerspectiveRatio == 550

\* FOG_SYMBOL_CLIPPING_THRESHOLD, in percent of opacity
FOG_SYMBOL_CLIPPING_THRESHOLD == 90

\* tr.width, tr.height and viewportPadding are whole pixels
screenRightBoundary(tr) == (tr.width + viewportPadding) * ONE
screenBottomBoundary(tr) == (tr.height + viewportPadding) * ONE
gridRightBoundary(tr) == (tr.width + 2 * viewportPadding) * ONE
gridBottomBoundary(tr) == (tr.height + 2 * viewportPadding) * ONE

\* isOffscreen against the padded grid instead of the viewport
isOffscreen_ofGrid(tr, x1, y1, x2, y2) ==
    \/ x2 < 0
    \/ x1 >= gridRightBoundary(tr)
    \/ y2 < 0
    \/ y1 > gridBottomBoundary(tr)

\* lines 418-420
isOffscreen(tr, x1, y1, x2, y2) ==
    \/ x2 < viewportPadding * ONE
    \/ x1 >= screenRightBoundary(tr)
    \/ y2 < viewportPadding * ONE
    \/ y1 > screenBottomBoundary(tr)

isInsideGrid(tr, x1, y1, x2, y2) ==
    /\ x2 >= 0
    /\ x1 < gridRightBoundary(tr)
    /\ y2 >= 0
    /\ y1 < gridBottomBoundary(tr)

----------------------------------------------------------------------------
(* Matrix transforms *)

\* vec4.transformMat4(out, [x, y, z, 1], m); the result is (x', y', z', w) * ONE
transformMat4(x, y, z, m) ==
    << At(m, 0) * x + At(m, 4) * y + At(m, 8) * z + At(m, 12) * ONE,
       At(m, 1) * x + At(m, 5) * y + At(m, 9) * z + At(m, 13) * ONE,
       At(m, 2) * x + At(m, 6) * y + At(m, 10) * z + At(m, 14) * ONE,
       At(m, 3) * x + At(m, 7) * y + At(m, 11) * z + At(m, 15) * ONE >>

\* xyTransformMat4(out, a, m): out[2] keeps the input's z
xyTransformMat4(x, y, z, m) ==
    << At(m, 0) * x + At(m, 4) * y + At(m, 12) * ONE,
       At(m, 1) * x + At(m, 5) * y + At(m, 13) * ONE,
       z,
       At(m, 3) * x + At(m, 7) * y + At(m, 15) * ONE >>

getPerspectiveRatio_unclamped(cameraToCenterDistance, signedDistanceFromCamera) ==
    IF signedDistanceFromCamera = 0
    THEN 1500
    ELSE 500 + (500 * cameraToCenterDistance) \div signedDistanceFromCamera

\* Math.min(0.5 + 0.5 * (cameraToCenterDistance / w), 1.5), in thousandths.
\* A division by zero gives Infinity, and the minimum is then 1.5.
getPerspectiveRatio(cameraToCenterDistance, signedDistanceFromCamera) ==
    IF signedDistanceFromCamera = 0
    THEN 1500
    ELSE Min(500 + (500 * cameraToCenterDistance) \div signedDistanceFromCamera, 1500)

----------------------------------------------------------------------------
(* The spatial grid (grid_index.js).  Its contract only: entries are kept  *)
(* in insertion order; a hit test reports whether some entry accepted by   *)
(* the predicate collides with the shape; a range query returns the        *)
(* entries (a circle as its bounding box) that meet the range.             *)

\* A collisionGroupPredicate is held as the set of collisionGroupIDs it
\* accepts; an absent predicate accepts every key.
GroupIDs == {0, 1}
predicateAccepts(predicate, key) == key.collisionGroupID \in predicate

BoxEntry(key, x1, y1, x2, y2) ==
    [kind |-> "box", key |-> key, x1 |-> x1, y1 |-> y1, x2 |-> x2, y2 |-> y2]

CircleEntry(key, x, y, radius) ==
    [kind |-> "circle", key |-> key, x1 |-> x - radius, y1 |-> y - radius,
     x2 |-> x + radius, y2 |-> y + radius, x |-> x, y |-> y, radius |-> radius]

rectsMeet(ax1, ay1, ax2, ay2, bx1, by1, bx2, by2) ==
    ax1 <= bx2 /\ ay1 <= by2 /\ ax2 >= bx1 /\ ay2 >= by1

circlesCollide(x1, y1, r1, x2, y2, r2) ==
    (r1 + r2) * (r1 + r2) > (x2 - x1) * (x2 - x1) + (y2 - y1) * (y2 - y1)

\* all lengths doubled, so that the half extents stay integers
circleAndRectCollide(cx, cy, radius, x1, y1, x2, y2) ==
    LET w2 == x2 - x1
        h2 == y2 - y1
        distX2 == Abs(2 * cx - (x1 + x2))
        distY2 == Abs(2 * cy - (y1 + y2))
        dx2 == distX2 - w2
        dy2 == distY2 - h2
    IN  /\ distX2 <= w2 + 2 * radius
        /\ distY2 <= h2 + 2 * radius
        /\ \/ distX2 <= w2
           \/ distY2 <= h2
           \/ dx2 * dx2 + dy2 * dy2 <= 4 * radius * radius

GridInsert(g, key, x1, y1, x2, y2) == Append(g, BoxEntry(key, x1, y1, x2, y2))
GridInsertCircle(g, key, x, y, radius) == Append(g, CircleEntry(key, x, y, radius))

GridHitTest(g, x1, y1, x2, y2, predicate) ==
    \E i \in DOMAIN g :
        /\ predicateAccepts(predicate, g[i].key)
        /\ IF g[i].kind = "box"
           THEN rectsMeet(x1, y1, x2, y2, g[i].x1, g[i].y1, g[i].x2, g[i].y2)
           ELSE circleAndRectCollide(g[i].x, g[i].y, g[i].radius, x1, y1, x2, y2)

GridHitTestCircle(g, x, y, radius, predicate) ==
    \E i \in DOMAIN g :
        /\ predicateAccepts(predicate, g[i].key)
        /\ IF g[i].kind = "box"
           THEN circleAndRectCollide(x, y, radius, g[i].x1, g[i].y1, g[i].x2, g[i].y2)
           ELSE circlesCollide(x, y, radius, g[i].x, g[i].y, g[i].radius)

GridQuery(g, x1, y1, x2, y2) ==
    SelectSeq(g, LAMBDA e : rectsMeet(x1, y1, x2, y2, e.x1, e.y1, e.x2, e.y2))

GridKeysLength(g) == Len(g)

----------------------------------------------------------------------------
(* CollisionIndex.projectAndGetPerspectiveRatio *)

\* The fog opacity at the point is what getFogOpacityAtTileCoord returns:
\* an input of the call, in percent.
\* lines 403-415: p is the point in clip space
projectedAt(tr, p, checkOcclusion, behindFog) ==
    [point |-> IF p[4] = 0
               THEN [x |-> 0, y |-> 0, finite |-> FALSE]
               ELSE [x |-> ((p[1] + p[4]) * tr.width * ONE) \div (2 * p[4]) + viewportPadding * ONE,
                     y |-> ((p[4] - p[2]) * tr.height * ONE) \div (2 * p[4]) + viewportPadding * ONE,
                     finite |-> TRUE],
     perspectiveRatio |-> IF p[4] = 0 THEN 1500
                          ELSE Min(500 + (500 * tr.cameraToCenterDistance) \div p[4], 1500),
     signedDistanceFromCamera |-> p[4],
     occluded |-> (checkOcclusion /\ p[3] > p[4]) \/ behindFog]

\* projectAndGetPerspectiveRatio reading the fog on both branches of line 393
projectAndGetPerspectiveRatio_fogAlways(tr, posMatrix, point, tileID, checkOcclusion, fogOpacity) ==
    IF point[3] # 0 \/ tr.pitch > 0
    THEN projectedAt(tr, transformMat4(point[1], point[2], point[3], posMatrix), checkOcclusion,
                     tr.fog /\ tileID /\ fogOpacity > FOG_SYMBOL_CLIPPING_THRESHOLD)
    ELSE projectedAt(tr, xyTransformMat4(point[1], point[2], point[3], posMatrix),
                     checkOcclusion,
                     tr.fog /\ tileID /\ fogOpacity > FOG_SYMBOL_CLIPPING_THRESHOLD)

\* lines 390-416
projectAndGetPerspectiveRatio(tr, posMatrix, point, tileID, checkOcclusion, fogOpacity) ==
    IF point[3] # 0 \/ tr.pitch > 0
    THEN projectedAt(tr, transformMat4(point[1], point[2], point[3], posMatrix), checkOcclusion,
                     tr.fog /\ tileID /\ fogOpacity > FOG_SYMBOL_CLIPPING_THRESHOLD)
    ELSE projectedAt(tr, xyTransformMat4(point[1], point[2], point[3], posMatrix),
                     checkOcclusion, FALSE)

----------------------------------------------------------------------------
(* CollisionIndex.placeCollisionBox *)

\* projection.upVector / upVectorScale(...).metersToTile of the planar
\* projector: straight up, one tile unit per meter at the model's zoom.
upVector == <<0, 0, 1>>
upVectorScale == [metersToTile |-> 1]

\* lines 78-92: the anchor, lifted by the elevation vector
elevatedBoxAnchor(box) ==
    IF box.elevation # 0 /\ box.tileID
    THEN << box.projectedAnchorX + upVector[1] * box.elevation * upVectorScale.metersToTile,
            box.projectedAnchorY + upVector[2] * box.elevation * upVectorScale.metersToTile,
            box.projectedAnchorZ + upVector[3] * box.elevation * upVectorScale.metersToTile >>
    ELSE << box.projectedAnchorX, box.projectedAnchorY, box.projectedAnchorZ >>

checkOcclusionFor(tr, elevation) ==
    tr.projection = "globe" \/ elevation # 0 \/ tr.pitch > 0

\* lines 96-101: the four viewport coordinates around the projected anchor
boxAround(a, projectedPoint, tileToViewport) ==
    [projectedPoint |-> projectedPoint,
     tlX |-> ((a.collisionBox.x1 * a.scale + a.shift[1] - a.collisionBox.padding)
                 * tileToViewport) \div 1000 + projectedPoint.point.x,
     tlY |-> ((a.collisionBox.y1 * a.scale + a.shift[2] - a.collisionBox.padding)
                 * tileToViewport) \div 1000 + projectedPoint.point.y,
     brX |-> ((a.collisionBox.x2 * a.scale + a.shift[1] + a.collisionBox.padding)
                 * tileToViewport) \div 1000 + projectedPoint.point.x,
     brY |-> ((a.collisionBox.y2 * a.scale + a.shift[2] + a.collisionBox.padding)
                 * tileToViewport) \div 1000 + projectedPoint.point.y]

\* line 95
boxAtAnchor(a, projectedPoint) ==
    boxAround(a, projectedPoint, a.textPixelRatio * projectedPoint.perspectiveRatio)

\* lines 94-101: the projected anchor and the four viewport coordinates
boxGeometry(tr, a) ==
    boxAtAnchor(a, projectAndGetPerspectiveRatio(tr, a.posMatrix,
                                                 elevatedBoxAnchor(a.collisionBox),
                                                 a.collisionBox.tileID,
                                                 checkOcclusionFor(tr, a.collisionBox.elevation),
                                                 a.fogOpacity))

isClipped_strict(projectedPoint) ==
    projectedPoint.perspectiveRatio < minPerspectiveRatio \/ projectedPoint.occluded

\* line 107
isClipped(projectedPoint) ==
    projectedPoint.perspectiveRatio <= minPerspectiveRatio \/ projectedPoint.occluded

boxRejected_noHitTest(inside, allowOverlap, hit, clipped) ==
    ~inside \/ clipped

\* lines 109-111
boxRejected(inside, allowOverlap, hit, clipped) ==
    ~inside \/ (~allowOverlap /\ hit) \/ clipped

\* lines 103-123: geo is the box in viewport coordinates
boxResult(tr, g, a, geo) ==
    IF boxRejected(geo.projectedPoint.point.finite
                       /\ isInsideGrid(tr, geo.tlX, geo.tlY, geo.brX, geo.brY),
                   a.allowOverlap,
                   GridHitTest(g, geo.tlX, geo.tlY, geo.brX, geo.brY, a.collisionGroupPredicate),
                   isClipped(geo.projectedPoint))
    THEN [box |-> <<>>, offscreen |-> FALSE, occluded |-> geo.projectedPoint.occluded]
    ELSE [box |-> <<geo.tlX, geo.tlY, geo.brX, geo.brY>>,
          offscreen |-> isOffscreen(tr, geo.tlX, geo.tlY, geo.brX, geo.brY),
          occluded |-> FALSE]

\* a: the arguments {scale, collisionBox, shift, allowOverlap, textPixelRatio,
\* posMatrix, collisionGroupPredicate} and the fog opacity at the anchor
placedBox(tr, g, a) == boxResult(tr, g, a, boxGeometry(tr, a))

\* The method on the index ci = [grid, ignoredGrid]: it reads the active grid
\* and writes neither grid.
insertedIfPlaced(ci, a, r) ==
    [grid |-> IF r.box = <<>> THEN ci.grid
              ELSE GridInsert(ci.grid, a.key, r.box[1], r.box[2], r.box[3], r.box[4]),
     ignoredGrid |-> ci.ignoredGrid,
     result |-> r]

placeCollisionBox_inserting(tr, ci, a) == insertedIfPlaced(ci, a, placedBox(tr, ci.grid, a))

placeCollisionBox(tr, ci, a) ==
    [grid |-> ci.grid, ignoredGrid |-> ci.ignoredGrid, result |-> placedBox(tr, ci.grid, a)]

----------------------------------------------------------------------------
(* CollisionIndex.insertCollisionBox / insertCollisionCircles *)

insertCollisionBox_swapped(ci, collisionBox, ignorePlacement, key) ==
    IF ~ignorePlacement
    THEN [ci EXCEPT !.ignoredGrid = GridInsert(@, key, collisionBox[1], collisionBox[2],
                                                collisionBox[3], collisionBox[4])]
    ELSE [ci EXCEPT !.grid = GridInsert(@, key, collisionBox[1], collisionBox[2],
                                         collisionBox[3], collisionBox[4])]

\* key = {bucketInstanceId, featureIndex, collisionGroupID}
insertCollisionBox(ci, collisionBox, ignorePlacement, key) ==
    IF ignorePlacement
    THEN [ci EXCEPT !.ignoredGrid = GridInsert(@, key, collisionBox[1], collisionBox[2],
                                                collisionBox[3], collisionBox[4])]
    ELSE [ci EXCEPT !.grid = GridInsert(@, key, collisionBox[1], collisionBox[2],
                                         collisionBox[3], collisionBox[4])]

RECURSIVE insertCircleList(_, _, _, _)
\* the loop of lines 385-387: k runs over the quadruples x, y, radius, 0
insertCircleList(g, key, collisionCircles, k) ==
    IF k > Len(collisionCircles)
    THEN g
    ELSE insertCircleList(GridInsertCircle(g, key, collisionCircles[k], collisionCircles[k + 1],
                                           collisionCircles[k + 2]),
                          key, collisionCircles, k + 4)

insertCollisionCircles(ci, collisionCircles, ignorePlacement, key) ==
    IF ignorePlacement
    THEN [ci EXCEPT !.ignoredGrid = insertCircleList(@, key, collisionCircles, 1)]
    ELSE [ci EXCEPT !.grid = insertCircleList(@, key, collisionCircles, 1)]

----------------------------------------------------------------------------
(* util/intersection_tests.js: polygonIntersectsPolygon, on integer points *)

Pt(x, y) == [x |-> x, y |-> y]

\* the ray casting of polygonContainsPoint: edge ring[i] -> ring[j], j = i - 1
edgeCrosses(p1, p2, p) ==
    /\ (p1.y > p.y) # (p2.y > p.y)
    /\ LET d == p2.y - p1.y
           n == (p2.x - p1.x) * (p.y - p1.y)
       IN  IF d > 0 THEN (p.x - p1.x) * d < n ELSE (p.x - p1.x) * d > n

polygonContainsPoint(ring, p) ==
    LET n == Len(ring)
        crossings == {i \in 1..n : edgeCrosses(ring[i], ring[IF i = 1 THEN n ELSE i - 1], p)}
    IN  Cardinality(crossings) % 2 = 1

isCounterClockwise(a, b, c) == (c.y - a.y) * (b.x - a.x) > (b.y - a.y) * (c.x - a.x)

lineSegmentIntersectsLineSegment(a0, a1, b0, b1) ==
    /\ isCounterClockwise(a0, b0, b1) # isCounterClockwise(a1, b0, b1)
    /\ isCounterClockwise(a0, a1, b0) # isCounterClockwise(a0, a1, b1)

lineIntersectsLine(lineA, lineB) ==
    \E i \in 1..(Len(lineA) - 1) : \E j \in 1..(Len(lineB) - 1) :
        lineSegmentIntersectsLineSegment(lineA[i], lineA[i + 1], lineB[j], lineB[j + 1])

polygonIntersectsPolygon(polygonA, polygonB) ==
    \/ \E i \in DOMAIN polygonA : polygonContainsPoint(polygonB, polygonA[i])
    \/ \E i \in DOMAIN polygonB : polygonContainsPoint(polygonA, polygonB[i])
    \/ lineIntersectsLine(polygonA, polygonB)

----------------------------------------------------------------------------
(* CollisionIndex.queryRenderedSymbols *)

\* lines 319-331: the query shifted into grid coordinates
gridQuery(viewportQueryGeometry) ==
    [i \in DOMAIN viewportQueryGeometry |->
        Pt(viewportQueryGeometry[i].x + viewportPadding * ONE,
           viewportQueryGeometry[i].y + viewportPadding * ONE)]

RECURSIVE SeqMin(_, _), SeqMax(_, _)
SeqMin(s, i) == IF i = Len(s) THEN s[i] ELSE Min(s[i], SeqMin(s, i + 1))
SeqMax(s, i) == IF i = Len(s) THEN s[i] ELSE Max(s[i], SeqMax(s, i + 1))

featureBBox(feature) ==
    << Pt(feature.x1, feature.y1), Pt(feature.x2, feature.y1),
       Pt(feature.x2, feature.y2), Pt(feature.x1, feature.y2) >>

addToResult(result, key) ==
    IF key.bucketInstanceId \in DOMAIN result
    THEN [result EXCEPT ![key.bucketInstanceId] = Append(@, key.featureIndex)]
    ELSE result @@ (key.bucketInstanceId :> <<key.featureIndex>>)

RECURSIVE collectFeatures_noSeen(_, _, _, _, _)
collectFeatures_noSeen(features, query, i, seenFeatures, result) ==
    IF i > Len(features)
    THEN result
    ELSE LET key == features[i].key
             id == <<key.bucketInstanceId, key.featureIndex>>
         IN  IF ~polygonIntersectsPolygon(query, featureBBox(features[i]))
             THEN collectFeatures_noSeen(features, query, i + 1, seenFeatures, result)
             ELSE collectFeatures_noSeen(features, query, i + 1, seenFeatures \cup {id},
                                         addToResult(result, key))

RECURSIVE collectFeatures_seenEarly(_, _, _, _, _)
collectFeatures_seenEarly(features, query, i, seenFeatures, result) ==
    IF i > Len(features)
    THEN result
    ELSE LET key == features[i].key
             id == <<key.bucketInstanceId, key.featureIndex>>
         IN  IF id \in seenFeatures
             THEN collectFeatures_seenEarly(features, query, i + 1, seenFeatures, result)
             ELSE IF ~polygonIntersectsPolygon(query, featureBBox(features[i]))
             THEN collectFeatures_seenEarly(features, query, i + 1, seenFeatures \cup {id}, result)
             ELSE collectFeatures_seenEarly(features, query, i + 1, seenFeatures \cup {id},
                                            addToResult(result, key))

RECURSIVE collectFeatures(_, _, _, _, _)
\* the loop of lines 339-369
collectFeatures(features, query, i, seenFeatures, result) ==
    IF i > Len(features)
    THEN result
    ELSE LET key == features[i].key
             id == <<key.bucketInstanceId, key.featureIndex>>
         IN  IF id \in seenFeatures
             THEN collectFeatures(features, query, i + 1, seenFeatures, result)
             ELSE IF ~polygonIntersectsPolygon(query, featureBBox(features[i]))
             THEN collectFeatures(features, query, i + 1, seenFeatures, result)
             ELSE collectFeatures(features, query, i + 1, seenFeatures \cup {id},
                                  addToResult(result, key))

\* The result maps each bucketInstanceId that has a hit to its featureIndex list.
queryRenderedSymbols(ci, viewportQueryGeometry) ==
    IF Len(viewportQueryGeometry) = 0
       \/ (GridKeysLength(ci.grid) = 0 /\ GridKeysLength(ci.ignoredGrid) = 0)
    THEN <<>>
    ELSE LET query == gridQuery(viewportQueryGeometry)
             xs == [i \in DOMAIN query |-> query[i].x]
             ys == [i \in DOMAIN query |-> query[i].y]
             minX == SeqMin(xs, 1)
             minY == SeqMin(ys, 1)
             maxX == SeqMax(xs, 1)
             maxY == SeqMax(ys, 1)
             features == GridQuery(ci.grid, minX, minY, maxX, maxY)
                         \o GridQuery(ci.ignoredGrid, minX, minY, maxX, maxY)
         IN  collectFeatures(features, query, 1, {}, <<>>)

----------------------------------------------------------------------------
(* The collision pass: inputs *)

MaxEntries == 2

FlatMatrix    == << 1, 0, 0, 0,   0, -2, 0, 0,      0, 0, 1, 0,    -50, 50, 0, 50 >>
PitchedMatrix == << 1, 0, 0, 0,   0, -2, -36, -18,  0, 0, 10, -1,  -50, 50, 450, 500 >>
GlobeMatrix   == << 1, 0, 0, 0,   0, -2, 0, 0,      0, 0, 10, 0,   -50, 50, 0, 50 >>

\* The camera snapshots a pass is constructed with.  posMatrix is the matrix
\* of the one tile the model's symbols live in; cameraToCenterDistance is the
\* clip-space w of the viewport center under it.
Transforms ==
    { [name |-> "flat", width |-> 100, height |-> 50, pitch |-> 0, projection |-> "mercator",
       cameraToCenterDistance |-> 50 * ONE, fog |-> TRUE, posMatrix |-> FlatMatrix],
      [name |-> "pitched", width |-> 100, height |-> 50, pitch |-> 60, projection |-> "mercator",
       cameraToCenterDistance |-> 50 * ONE, fog |-> TRUE, posMatrix |-> PitchedMatrix],
      [name |-> "globe", width |-> 100, height |-> 50, pitch |-> 0, projection |-> "globe",
       cameraToCenterDistance |-> 50 * ONE, fog |-> FALSE, posMatrix |-> GlobeMatrix] }

Key(b, f, g) == [bucketInstanceId |-> b, featureIndex |-> f, collisionGroupID |-> g]

\* a 20 x 10 collision box around its anchor
CBox(ax, ay, az, elevation, padding) ==
    [projectedAnchorX |-> ax * ONE, projectedAnchorY |-> ay * ONE, projectedAnchorZ |-> az * ONE,
     tileAnchorX |-> ax * ONE, tileAnchorY |-> ay * ONE,
     x1 |-> -10 * ONE, y1 |-> -5 * ONE, x2 |-> 10 * ONE, y2 |-> 5 * ONE,
     padding |-> padding * ONE, elevation |-> elevation * ONE, tileID |-> TRUE]

Candidate(box, key, fogOpacity) == [collisionBox |-> box, key |-> key, fogOpacity |-> fogOpacity]

\* The symbol instances of the pass: a collision box, the key of its feature
\* and the fog opacity at its anchor (percent).
Candidates(tr) ==
    IF tr.name = "flat" THEN
        { Candidate(CBox(50, 25, 0, 0, 0), Key(1, 0, 0), 0),
          Candidate(CBox(60, 27, 0, 0, 2), Key(1, 0, 1), 0),
          Candidate(CBox(90, 25, 0, 0, 0), Key(1, 1, 0), 0),
          Candidate(CBox(-110, 25, 0, 0, 0), Key(2, 0, 0), 0),
          Candidate(CBox(-115, 25, 0, 0, 0), Key(2, 1, 0), 0),
          Candidate(CBox(50, 25, 0, 0, 0), Key(1, 0, 0), 95),
          Candidate(CBox(50, 25, 0, 2, 0), Key(1, 0, 0), 95) }
    ELSE IF tr.name = "pitched" THEN
        { Candidate(CBox(50, 25, 0, 0, 0), Key(1, 0, 0), 0),
          Candidate(CBox(60, 25, 0, 0, 2), Key(1, 1, 1), 0),
          Candidate(CBox(90, 25, 0, 0, 0), Key(1, 1, 0), 95),
          Candidate(CBox(50, 0, 0, 0, 0), Key(2, 0, 0), 0),
          Candidate(CBox(50, 5, 0, 0, 0), Key(2, 0, 0), 50),
          Candidate(CBox(50, 25, 0, 46, 0), Key(2, 1, 0), 0),
          Candidate(CBox(50, 25, 0, 50, 0), Key(2, 1, 0), 0),
          Candidate(CBox(50, 28, 0, 0, 0), Key(2, 1, 0), 0) }
    ELSE
        { Candidate(CBox(50, 25, 0, 0, 0), Key(1, 0, 0), 0),
          Candidate(CBox(55, 25, 2, 0, 0), Key(1, 1, 1), 0),
          Candidate(CBox(50, 25, 20, 0, 0), Key(2, 0, 0), 0) }

PlaceBoxArgs(tr) ==
    { [scale |-> 1, collisionBox |-> c.collisionBox, key |-> c.key, shift |-> <<0, 0>>,
       allowOverlap |-> o, textPixelRatio |-> 1, posMatrix |-> tr.posMatrix,
       collisionGroupPredicate |-> pr, fogOpacity |-> c.fogOpacity] :
        c \in Candidates(tr), o \in BOOLEAN, pr \in {GroupIDs, {0}} }

P(x, y) == Pt(x * ONE, y * ONE)

\* viewport polygons of a pointer query: none, a point, a closed triangle, two closed rectangles
QueryGeometries ==
    { <<>>,
      << P(50, 25) >>,
      << P(10, -5), P(70, -5), P(10, 55), P(10, -5) >>,
      << P(85, 15), P(105, 15), P(105, 35), P(85, 35), P(85, 15) >>,
      << P(-130, -10), P(110, -10), P(110, 60), P(-130, 60), P(-130, -10) >> }

ci == [grid |-> grid, ignoredGrid |-> ignoredGrid]

\* the entries of both grids, the active grid first
allEntries == grid \o ignoredGrid

InitCI ==
    /\ transform \in Transforms
    /\ grid = <<>>
    /\ ignoredGrid = <<>>
    /\ last = [op |-> "constructor"]

\* the call repeats the previous one: same method, same arguments
SameCall(op, a) == last.op = op /\ last.args = a

PlaceCollisionBox ==
    \E a \in PlaceBoxArgs(transform) :
        \E r \in {placeCollisionBox(transform, ci, a)} :
            /\ grid' = r.grid
            /\ ignoredGrid' = r.ignoredGrid
            /\ last' = [op |-> "placeCollisionBox", args |-> a, result |-> r.result,
                        again |-> SameCall("placeCollisionBox", a),
                        first |-> IF SameCall("placeCollisionBox", a) THEN last.result
                                  ELSE r.result]
            /\ UNCHANGED transform

\* placement inserts the box it has just placed, under the key of its feature,
\* each symbol instance once
InsertCollisionBox ==
    /\ last.op = "placeCollisionBox"
    /\ last.result.box # <<>>
    /\ Len(grid) + Len(ignoredGrid) < MaxEntries
    /\ \A i \in DOMAIN allEntries :
           allEntries[i] # BoxEntry(last.args.key, last.result.box[1], last.result.box[2],
                                    last.result.box[3], last.result.box[4])
    /\ \E ignorePlacement \in BOOLEAN :
        \E r \in {insertCollisionBox(ci, last.result.box, ignorePlacement, last.args.key)} :
            /\ grid' = r.grid
            /\ ignoredGrid' = r.ignoredGrid
            /\ last' = [op |-> "insertCollisionBox", collisionBox |-> last.result.box,
                        ignorePlacement |-> ignorePlacement, key |-> last.args.key]
            /\ UNCHANGED transform

QueryRenderedSymbols ==
    \E q \in QueryGeometries :
        /\ last' = [op |-> "queryRenderedSymbols", viewportQueryGeometry |-> q,
                    result |-> queryRenderedSymbols(ci, q)]
        /\ UNCHANGED <<transform, grid, ignoredGrid>>

----------------------------------------------------------------------------
(* Points (@mapbox/point-geometry), in fixed point *)

RECURSIVE NewtonSqrt(_, _)
NewtonSqrt(n, x) ==
    LET y == (x + n \div x) \div 2
    IN  IF y >= x THEN x ELSE NewtonSqrt(n, y)

\* the integer part of the square root
ISqrt(n) == IF n <= 0 THEN 0 ELSE NewtonSqrt(n, n)

RECURSIVE GCD(_, _)
GCD(a, b) == IF b = 0 THEN a ELSE GCD(b, a % b)

PtAdd(a, b) == Pt(a.x + b.x, a.y + b.y)
PtSub(a, b) == Pt(a.x - b.x, a.y - b.y)
PtMag(a) == ISqrt(a.x * a.x + a.y * a.y)
PtDist(a, b) == PtMag(PtSub(a, b))
PtPerp(a) == Pt(-a.y, a.x)
\* p.mult(num / den)
PtScale(a, num, den) == Pt((a.x * num) \div den, (a.y * num) \div den)
\* p.unit(): length ONE; the zero vector has no direction (NaN in the program)
PtUnit(a) == IF PtMag(a) = 0 THEN a ELSE PtScale(a, ONE, PtMag(a))

\* Math.atan2(dy, dx): a function of the direction alone
Atan2(dy, dx) ==
    LET g == GCD(Abs(dy), Abs(dx))
    IN  IF g = 0 THEN <<0, 0>> ELSE <<dy \div g, dx \div g>>

\* an angle k * PI + Math.atan2(dy, dx)
Angle(k, dy, dx) == [pi |-> k, atan2 |-> Atan2(dy, dx)]

----------------------------------------------------------------------------
(* projection.js: project, isVisible *)

\* n / d rounded to the nearest integer, halves away from zero
Quotient(n, d) ==
    IF d < 0 THEN (IF n > 0 THEN -((2 * n - d) \div (-2 * d)) ELSE (-2 * n - d) \div (-2 * d))
    ELSE (IF n < 0 THEN -((-2 * n + d) \div (2 * d)) ELSE (2 * n + d) \div (2 * d))

\* project, lines 148-151: w = pos[3], the point is pos / w
perspectiveDivide(pos) ==
    [point |-> IF pos[4] = 0 THEN Pt(0, 0)
               ELSE Pt(Quotient(pos[1] * ONE, pos[4]), Quotient(pos[2] * ONE, pos[4])),
     signedDistanceFromCamera |-> pos[4]]

\* project(point, matrix, elevation = 0), lines 140-152
project(point, matrix, elevation) ==
    perspectiveDivide(IF elevation # 0
                      THEN transformMat4(point.x, point.y, elevation, matrix)
                      ELSE xyTransformMat4(point.x, point.y, elevation, matrix))

\* clippingBuffer[k] = 256 / dim * 2 + 1, compared with |pos / w| without dividing
inClippingBuffer(pos, w, dim) == w # 0 /\ Abs(pos) * dim <= (512 + dim) * Abs(w)

\* isVisible(anchorPos, clippingBuffer), clippingBuffer from painter.width / height
isVisible(anchorPos, painter) ==
    /\ inClippingBuffer(anchorPos[1], anchorPos[4], painter.width)
    /\ inClippingBuffer(anchorPos[2], anchorPos[4], painter.height)

\* the planar projector: projectTilePoint(x, y, id) = {x, y, z: 0}
projectTilePoint(x, y) == [x |-> x, y |-> y, z |-> 0]

\* elevatePointAndProject(p, tileID, posMatrix, projection, getElevation = null)
elevatePointAndProject(p, posMatrix) ==
    LET point == projectTilePoint(p.x, p.y)
    IN  project(Pt(point.x, point.y), posMatrix, point.z)

\* line 439: previousProjectedPoint.add(projectedUnitSegment._mult(minimumLength / mag))
extendedBy(previousProjectedPoint, projectedUnitSegment, minimumLength) ==
    IF PtMag(projectedUnitSegment) = 0
    THEN previousProjectedPoint
    ELSE PtAdd(previousProjectedPoint,
               PtScale(projectedUnitSegment, minimumLength, PtMag(projectedUnitSegment)))

projectTruncatedLineSegment(previousTilePoint, currentTilePoint, previousProjectedPoint, minimumLength, projectionMatrix) ==
    LET unitVertex == PtAdd(previousTilePoint, PtUnit(PtSub(previousTilePoint, currentTilePoint)))
        projectedUnitVertex == elevatePointAndProject(unitVertex, projectionMatrix).point
        projectedUnitSegment == PtSub(previousProjectedPoint, projectedUnitVertex)
    IN  extendedBy(previousProjectedPoint, projectedUnitSegment, minimumLength)

----------------------------------------------------------------------------
(* projection.js: placeGlyphAlongLine *)

\* lineVertexArray.getx(i) / gety(i), i counted from 0
lineVertex(lineVertexArray, i) == lineVertexArray[i + 1]

\* walkTo finding no room once the vertex is in the projection cache
walkTo_cachedOutOfRange(w, c, currentIndex, previousTilePoint, vertex, projection) ==
    IF currentIndex \in DOMAIN w.cache
    THEN [w EXCEPT !.currentIndex = currentIndex, !.fits = FALSE]
    ELSE LET behind == projection.signedDistanceFromCamera <= 0
             current == IF ~behind THEN projection.point
                        ELSE projectTruncatedLineSegment(previousTilePoint, vertex, w.current,
                                 c.absOffsetX - w.distanceToPrev + ONE, c.labelPlaneMatrix)
         IN  [currentIndex |-> currentIndex,
              current |-> current,
              prev |-> w.current,
              distanceToPrev |-> w.distanceToPrev + w.currentSegmentDistance,
              currentSegmentDistance |-> PtDist(w.current, current),
              pathVertices |-> Append(w.pathVertices, w.current),
              tilePath |-> IF c.returnPathInTileCoords
                           THEN Append(w.tilePath, IF w.currentVertex # <<>>
                                                   THEN w.currentVertex[1]
                                                   ELSE previousTilePoint)
                           ELSE w.tilePath,
              currentVertex |-> <<vertex>>,
              truncated |-> w.truncated \/ behind,
              cache |-> IF ~behind THEN (currentIndex :> projection.point) @@ w.cache
                        ELSE w.cache,
              fits |-> TRUE]

\* One turn of the while loop of lines 505-534.  w holds the loop's variables,
\* c the call's constants.  A null currentVertex is the empty tuple.
\* lines 512-533: the vertex at currentIndex, from the cache or projected
walkTo(w, c, currentIndex, previousTilePoint, vertex, projection) ==
    LET cached == currentIndex \in DOMAIN w.cache
        behind == ~cached /\ projection.signedDistanceFromCamera <= 0
        current == IF cached THEN w.cache[currentIndex]
                   ELSE IF ~behind THEN projection.point
                   ELSE projectTruncatedLineSegment(previousTilePoint, vertex, w.current,
                            c.absOffsetX - w.distanceToPrev + ONE, c.labelPlaneMatrix)
    IN  [currentIndex |-> currentIndex,
         current |-> current,
         prev |-> w.current,
         distanceToPrev |-> w.distanceToPrev + w.currentSegmentDistance,
         currentSegmentDistance |-> PtDist(w.current, current),
         pathVertices |-> Append(w.pathVertices, w.current),
         tilePath |-> IF c.returnPathInTileCoords
                      THEN Append(w.tilePath, IF w.currentVertex # <<>> THEN w.currentVertex[1]
                                              ELSE previousTilePoint)
                      ELSE w.tilePath,
         currentVertex |-> IF cached THEN <<>> ELSE <<vertex>>,
         truncated |-> w.truncated \/ behind,
         cache |-> IF ~cached /\ ~behind THEN (currentIndex :> projection.point) @@ w.cache
                   ELSE w.cache,
         fits |-> TRUE]

walkStep_fromArrayStart(w, c) ==
    LET currentIndex == w.currentIndex + c.dir
        previousTilePoint ==
            IF w.distanceToPrev = 0 THEN c.tileAnchorPoint
            ELSE lineVertex(c.lineVertexArray, currentIndex - c.dir)
        vertex == lineVertex(c.lineVertexArray, currentIndex)
    IN  IF currentIndex < 0 \/ currentIndex >= c.lineEndIndex
        THEN [w EXCEPT !.currentIndex = currentIndex, !.fits = FALSE]
        ELSE walkTo(w, c, currentIndex, previousTilePoint, vertex,
                    elevatePointAndProject(vertex, c.labelPlaneMatrix))

\* lines 506-533; previousTilePoint is the closure of lines 494-499
walkStep(w, c) ==
    LET currentIndex == w.currentIndex + c.dir
        previousTilePoint ==
            IF w.distanceToPrev = 0 THEN c.tileAnchorPoint
            ELSE lineVertex(c.lineVertexArray, currentIndex - c.dir)
        vertex == lineVertex(c.lineVertexArray, currentIndex)
    IN  IF currentIndex < c.lineStartIndex \/ currentIndex >= c.lineEndIndex
        THEN [w EXCEPT !.currentIndex = currentIndex, !.fits = FALSE]
        ELSE walkTo(w, c, currentIndex, previousTilePoint, vertex,
                    elevatePointAndProject(vertex, c.labelPlaneMatrix))

RECURSIVE walkLine(_, _)
\* the while loop of lines 505-534
walkLine(w, c) ==
    IF ~w.fits \/ w.distanceToPrev + w.currentSegmentDistance > c.absOffsetX
    THEN w
    ELSE walkLine(walkStep(w, c), c)

\* lines 545-551: the glyph on the segment the walk w stopped at
glyphPoint(w, c) ==
    LET prevToCurrent == PtSub(w.current, w.prev)
        onLine == PtAdd(PtScale(prevToCurrent, c.absOffsetX - w.distanceToPrev,
                                w.currentSegmentDistance), w.prev)
    IN  IF c.lineOffsetY # 0
        THEN PtAdd(onLine, PtScale(PtPerp(PtUnit(prevToCurrent)), c.lineOffsetY * c.dir, ONE))
        ELSE onLine

\* line 559, interpolate: the same point in tile coordinates, between the two vertices
glyphTilePoint(w, c, prevVertex, currentVertex) ==
    Pt((prevVertex.x * (w.currentSegmentDistance - (c.absOffsetX - w.distanceToPrev))
        + currentVertex.x * (c.absOffsetX - w.distanceToPrev)) \div w.currentSegmentDistance,
       (prevVertex.y * (w.currentSegmentDistance - (c.absOffsetX - w.distanceToPrev))
        + currentVertex.y * (c.absOffsetX - w.distanceToPrev)) \div w.currentSegmentDistance)

\* The result: placed = FALSE stands for null; cache is the projection cache
\* after the call; truncated tells whether a vertex behind the camera was replaced.
\* lines 553-567
placedGlyph(w, c, p) ==
    LET currentVertex == IF w.currentVertex # <<>> THEN w.currentVertex[1]
                         ELSE lineVertex(c.lineVertexArray, w.currentIndex)
        prevVertex == IF Len(w.tilePath) > 0 THEN w.tilePath[Len(w.tilePath)] ELSE currentVertex
    IN  [placed |-> TRUE,
         point |-> p,
         angle |-> Angle(c.halfTurns, w.current.y - w.prev.y, w.current.x - w.prev.x),
         path |-> Append(w.pathVertices, p),
         tilePath |-> IF c.returnPathInTileCoords
                      THEN Append(w.tilePath, glyphTilePoint(w, c, prevVertex, currentVertex))
                      ELSE w.tilePath,
         cache |-> w.cache,
         truncated |-> w.truncated]

\* the return of line 510, or the glyph
glyphOrNull(w, c) ==
    IF ~w.fits
    THEN [placed |-> FALSE, cache |-> w.cache, truncated |-> w.truncated]
    ELSE placedGlyph(w, c, glyphPoint(w, c))

\* lines 465-489: the direction of the walk and the offset to cover
walkConstants(offsetX, lineOffsetX, lineOffsetY, flip, tileAnchorPoint, lineStartIndex, lineEndIndex, lineVertexArray, labelPlaneMatrix, returnPathInTileCoords) ==
    LET combinedOffsetX == IF flip THEN offsetX - lineOffsetX ELSE offsetX + lineOffsetX
        dir0 == IF combinedOffsetX > 0 THEN 1 ELSE -1
        dir == IF flip THEN -dir0 ELSE dir0
    IN  [dir |-> dir, absOffsetX |-> Abs(combinedOffsetX),
         halfTurns |-> (IF flip THEN 1 ELSE 0) + (IF dir < 0 THEN 1 ELSE 0),
         lineOffsetY |-> lineOffsetY,
         tileAnchorPoint |-> tileAnchorPoint, lineStartIndex |-> lineStartIndex,
         lineEndIndex |-> lineEndIndex, lineVertexArray |-> lineVertexArray,
         labelPlaneMatrix |-> labelPlaneMatrix,
         returnPathInTileCoords |-> returnPathInTileCoords]

\* lines 481-492: the variables of the loop before its first turn
walkStart(c, anchorPoint, anchorSegment, projectionCache) ==
    [currentIndex |-> IF c.dir > 0 THEN c.lineStartIndex + anchorSegment
                      ELSE c.lineStartIndex + anchorSegment + 1,
     current |-> anchorPoint, prev |-> anchorPoint,
     distanceToPrev |-> 0, currentSegmentDistance |-> 0,
     pathVertices |-> <<>>, tilePath |-> <<>>,
     currentVertex |-> <<c.tileAnchorPoint>>, truncated |-> FALSE,
     cache |-> projectionCache, fits |-> TRUE]

\* lines 505-567
walkFrom(c, anchorPoint, anchorSegment, projectionCache) ==
    glyphOrNull(walkLine(walkStart(c, anchorPoint, anchorSegment, projectionCache), c), c)

placeGlyphAlongLine(offsetX, lineOffsetX, lineOffsetY, flip, anchorPoint, tileAnchorPoint, anchorSegment, lineStartIndex, lineEndIndex, lineVertexArray, labelPlaneMatrix, projectionCache, returnPathInTileCoords) ==
    walkFrom(walkConstants(offsetX, lineOffsetX, lineOffsetY, flip, tileAnchorPoint,
                           lineStartIndex, lineEndIndex, lineVertexArray, labelPlaneMatrix,
                           returnPathInTileCoords),
             anchorPoint, anchorSegment, projectionCache)

----------------------------------------------------------------------------
(* projection.js: orientation of a line label *)

FlipState == [unknown |-> 0, flipRequired |-> 1, flipNotRequired |-> 2]

\* symbol/shaping.js
WritingMode == [horizontal |-> 1, vertical |-> 2, horizontalOnly |-> 3]

\* Math.tan(85 * Math.PI / 180) = 11.4300..., in thousandths
maxTangent == 11430

\* aspectRatio = painter.transform.width / painter.transform.height is held as
\* the pair [width, height]; the products replace the quotients.
isInFlipRetainRange(firstPoint, lastPoint, aspectRatio) ==
    LET deltaY == lastPoint.y - firstPoint.y
        deltaXw == (lastPoint.x - firstPoint.x) * aspectRatio.width
    IN  IF deltaXw = 0
        THEN TRUE
        ELSE Abs(deltaY) * aspectRatio.height * 1000 > maxTangent * Abs(deltaXw)

\* The result is "useVertical", "needsFlipping" or "null".
requiresOrientationChange_noRetain(symbol, firstPoint, lastPoint, aspectRatio) ==
    LET rise == Abs(lastPoint.y - firstPoint.y) * aspectRatio.height
        run == Abs(lastPoint.x - firstPoint.x) * aspectRatio.width
    IN  IF symbol.writingMode = WritingMode.horizontal /\ rise > run
        THEN "useVertical"
        ELSE IF symbol.writingMode = WritingMode.vertical
        THEN (IF firstPoint.y < lastPoint.y THEN "needsFlipping" ELSE "null")
        ELSE (IF firstPoint.x > lastPoint.x THEN "needsFlipping" ELSE "null")

requiresOrientationChange_alwaysRetain(symbol, firstPoint, lastPoint, aspectRatio) ==
    LET rise == Abs(lastPoint.y - firstPoint.y) * aspectRatio.height
        run == Abs(lastPoint.x - firstPoint.x) * aspectRatio.width
    IN  IF symbol.writingMode = WritingMode.horizontal /\ rise > run
        THEN "useVertical"
        ELSE IF symbol.writingMode = WritingMode.vertical
        THEN (IF firstPoint.y < lastPoint.y THEN "needsFlipping" ELSE "null")
        ELSE IF symbol.flipState # FlipState.unknown
        THEN (IF symbol.flipState = FlipState.flipRequired THEN "needsFlipping" ELSE "null")
        ELSE (IF firstPoint.x > lastPoint.x THEN "needsFlipping" ELSE "null")

\* requiresOrientationChange comparing rise and run without the aspect ratio
requiresOrientationChange_noAspectRatio(symbol, firstPoint, lastPoint, aspectRatio) ==
    LET rise == Abs(lastPoint.y - firstPoint.y)
        run == Abs(lastPoint.x - firstPoint.x)
    IN  IF symbol.writingMode = WritingMode.horizontal /\ rise > run
        THEN "useVertical"
        ELSE IF symbol.writingMode = WritingMode.vertical
        THEN (IF firstPoint.y < lastPoint.y THEN "needsFlipping" ELSE "null")
        ELSE IF symbol.flipState # FlipState.unknown
                /\ isInFlipRetainRange(firstPoint, lastPoint, aspectRatio)
        THEN (IF symbol.flipState = FlipState.flipRequired THEN "needsFlipping" ELSE "null")
        ELSE (IF firstPoint.x > lastPoint.x THEN "needsFlipping" ELSE "null")

\* requiresOrientationChange flipping also when the two points have the same x
requiresOrientationChange_flipOnEqualX(symbol, firstPoint, lastPoint, aspectRatio) ==
    LET rise == Abs(lastPoint.y - firstPoint.y) * aspectRatio.height
        run == Abs(lastPoint.x - firstPoint.x) * aspectRatio.width
    IN  IF symbol.writingMode = WritingMode.horizontal /\ rise > run
        THEN "useVertical"
        ELSE IF symbol.writingMode = WritingMode.vertical
        THEN (IF firstPoint.y < lastPoint.y THEN "needsFlipping" ELSE "null")
        ELSE IF symbol.flipState # FlipState.unknown
                /\ isInFlipRetainRange(firstPoint, lastPoint, aspectRatio)
        THEN (IF symbol.flipState = FlipState.flipRequired THEN "needsFlipping" ELSE "null")
        ELSE (IF firstPoint.x >= lastPoint.x THEN "needsFlipping" ELSE "null")

\* requiresOrientationChange deciding a vertical symbol by the general rule
requiresOrientationChange_verticalAsGeneral(symbol, firstPoint, lastPoint, aspectRatio) ==
    LET rise == Abs(lastPoint.y - firstPoint.y) * aspectRatio.height
        run == Abs(lastPoint.x - firstPoint.x) * aspectRatio.width
    IN  IF symbol.writingMode = WritingMode.horizontal /\ rise > run
        THEN "useVertical"
        ELSE IF symbol.flipState # FlipState.unknown
                /\ isInFlipRetainRange(firstPoint, lastPoint, aspectRatio)
        THEN (IF symbol.flipState = FlipState.flipRequired THEN "needsFlipping" ELSE "null")
        ELSE (IF firstPoint.x > lastPoint.x THEN "needsFlipping" ELSE "null")

\* lines 320-345
requiresOrientationChange(symbol, firstPoint, lastPoint, aspectRatio) ==
    LET rise == Abs(lastPoint.y - firstPoint.y) * aspectRatio.height
        run == Abs(lastPoint.x - firstPoint.x) * aspectRatio.width
    IN  IF symbol.writingMode = WritingMode.horizontal /\ rise > run
        THEN "useVertical"
        ELSE IF symbol.writingMode = WritingMode.vertical
        THEN (IF firstPoint.y < lastPoint.y THEN "needsFlipping" ELSE "null")
        ELSE IF symbol.flipState # FlipState.unknown
                /\ isInFlipRetainRange(firstPoint, lastPoint, aspectRatio)
        THEN (IF symbol.flipState = FlipState.flipRequired THEN "needsFlipping" ELSE "null")
        ELSE (IF firstPoint.x > lastPoint.x THEN "needsFlipping" ELSE "null")

\* flipStateFor forgetting the decision when no flip is needed
flipStateFor_forgetting(orientationChange) ==
    IF orientationChange = "needsFlipping" THEN FlipState.flipRequired
    ELSE FlipState.unknown

\* lines 369 and 400: the value stored into symbol.flipState
flipStateFor(orientationChange) ==
    IF orientationChange = "needsFlipping" THEN FlipState.flipRequired
    ELSE FlipState.flipNotRequired

----------------------------------------------------------------------------
(* projection.js: placeFirstAndLastGlyph, placeGlyphsAlongLine *)

\* glyphOffsetArray.getoffsetX(i), i counted from 0
getoffsetX(glyphOffsetArray, i) == glyphOffsetArray[i + 1]

\* symbol/one_em.js
ONE_EM == 24

\* fontScale * offset, fontScale in thousandths
scaled(fontScale, offset) == (fontScale * offset) \div 1000

\* lines 299-305: the last glyph, placed once the first one is
firstAndLast(firstPlacedGlyph, lastPlacedGlyph) ==
    IF ~lastPlacedGlyph.placed
    THEN [placed |-> FALSE, cache |-> lastPlacedGlyph.cache]
    ELSE [placed |-> TRUE, first |-> firstPlacedGlyph, last |-> lastPlacedGlyph,
          cache |-> lastPlacedGlyph.cache]

placeLastGlyph(firstPlacedGlyph, fontScale, lastGlyphOffset, lineOffsetX, lineOffsetY, flip, anchorPoint, tileAnchorPoint, symbol, lineVertexArray, labelPlaneMatrix, returnPathInTileCoords) ==
    IF ~firstPlacedGlyph.placed
    THEN [placed |-> FALSE, cache |-> firstPlacedGlyph.cache]
    ELSE firstAndLast(firstPlacedGlyph,
             placeGlyphAlongLine(scaled(fontScale, lastGlyphOffset), lineOffsetX, lineOffsetY,
                                 flip, anchorPoint, tileAnchorPoint, symbol.segment,
                                 symbol.lineStartIndex,
                                 symbol.lineStartIndex + symbol.lineLength, lineVertexArray,
                                 labelPlaneMatrix, firstPlacedGlyph.cache,
                                 returnPathInTileCoords))

\* The result: placed = FALSE stands for null.
placeFirstAndLastGlyph(fontScale, glyphOffsetArray, lineOffsetX, lineOffsetY, flip, anchorPoint, tileAnchorPoint, symbol, lineVertexArray, labelPlaneMatrix, projectionCache, returnPathInTileCoords) ==
    LET glyphEndIndex == symbol.glyphStartIndex + symbol.numGlyphs
        firstGlyphOffset == getoffsetX(glyphOffsetArray, symbol.glyphStartIndex)
        lastGlyphOffset == getoffsetX(glyphOffsetArray, glyphEndIndex - 1)
    IN  placeLastGlyph(
            placeGlyphAlongLine(scaled(fontScale, firstGlyphOffset), lineOffsetX, lineOffsetY,
                                flip, anchorPoint, tileAnchorPoint, symbol.segment,
                                symbol.lineStartIndex,
                                symbol.lineStartIndex + symbol.lineLength, lineVertexArray,
                                labelPlaneMatrix, projectionCache, returnPathInTileCoords),
            fontScale, lastGlyphOffset, lineOffsetX, lineOffsetY, flip, anchorPoint,
            tileAnchorPoint, symbol, lineVertexArray, labelPlaneMatrix, returnPathInTileCoords)

\* symbol_bucket.js addDynamicAttributes: four vertices (p.x, p.y, angle)
glyphVertex(glyph) == [x |-> glyph.point.x, y |-> glyph.point.y, angle |-> glyph.angle]

addDynamicAttributes(dynamicLayoutVertexArray, glyph) ==
    dynamicLayoutVertexArray \o [k \in 1..4 |-> glyphVertex(glyph)]

RECURSIVE addAllDynamicAttributes(_, _, _)
addAllDynamicAttributes(dynamicLayoutVertexArray, placedGlyphs, i) ==
    IF i > Len(placedGlyphs)
    THEN dynamicLayoutVertexArray
    ELSE addAllDynamicAttributes(addDynamicAttributes(dynamicLayoutVertexArray, placedGlyphs[i]),
                                 placedGlyphs, i + 1)

\* line 379: placedGlyphs.push(...), the cache being shared by the calls
pushGlyph(acc, glyph) ==
    [glyphs |-> Append(acc.glyphs, glyph), cache |-> glyph.cache]

RECURSIVE placeInteriorGlyphs(_, _, _, _, _, _, _, _, _, _, _, _)
\* the loop of lines 376-381: acc = [glyphs, cache]
placeInteriorGlyphs(glyphIndex, glyphEndIndex, acc, fontScale, glyphOffsetArray, lineOffsetX, lineOffsetY, flip, anchorPoint, tileAnchorPoint, symbol, g) ==
    IF glyphIndex >= glyphEndIndex - 1
    THEN acc
    ELSE placeInteriorGlyphs(glyphIndex + 1, glyphEndIndex,
             pushGlyph(acc, placeGlyphAlongLine(
                                scaled(fontScale, getoffsetX(glyphOffsetArray, glyphIndex)),
                                lineOffsetX, lineOffsetY, flip, anchorPoint, tileAnchorPoint,
                                symbol.segment, symbol.lineStartIndex,
                                symbol.lineStartIndex + symbol.lineLength,
                                g.lineVertexArray, g.labelPlaneMatrix, acc.cache, FALSE)),
             fontScale, glyphOffsetArray, lineOffsetX, lineOffsetY, flip,
             anchorPoint, tileAnchorPoint, symbol, g)

\* What one call leaves behind.  result is "notEnoughRoom", "useVertical",
\* "needsFlipping" or "placed" (the empty object); flipState and array are
\* symbol.flipState and the dynamic layout array after the call; writes counts
\* the assignments to symbol.flipState; threw tells that a null glyph was
\* dereferenced at line 415.
PlaceOutcome(result, flipState, writes, array, cache, inRetain, threw) ==
    [result |-> result, flipState |-> flipState, writes |-> writes, array |-> array,
     cache |-> cache, inRetain |-> inRetain, threw |-> threw]

decidesOrientation_alsoFlipped(keepUpright, flip) == keepUpright

\* lines 367 and 386: if (keepUpright && !flip)
decidesOrientation(keepUpright, flip) == keepUpright /\ ~flip

\* lines 382-383 and 414-416: all glyphs placed, their attributes written
allGlyphs(inner, lastGlyph, flipState, writes, array, inRetain) ==
    IF \/ ~lastGlyph.placed
       \/ \E i \in DOMAIN inner.glyphs : ~inner.glyphs[i].placed
    THEN PlaceOutcome("placed", flipState, writes, array, inner.cache, inRetain, TRUE)
    ELSE PlaceOutcome("placed", flipState, writes,
                      addAllDynamicAttributes(array, Append(inner.glyphs, lastGlyph), 1),
                      inner.cache, inRetain, FALSE)

\* lines 364-381: firstPoint and lastPoint are the two glyphs in gl coordinates
orientedGlyphs(symbol, fontScale, lineOffsetX, lineOffsetY, flip, keepUpright, g, array, anchorPoint, tileAnchorPoint, fl, firstPoint, lastPoint) ==
    LET decide == decidesOrientation(keepUpright, flip)
        orientationChange == requiresOrientationChange(symbol, firstPoint, lastPoint, g.aspectRatio)
        flipState == IF decide THEN flipStateFor(orientationChange) ELSE symbol.flipState
        writes == IF decide THEN 1 ELSE 0
        inRetain == decide /\ isInFlipRetainRange(firstPoint, lastPoint, g.aspectRatio)
    IN  IF decide /\ orientationChange # "null"
        THEN PlaceOutcome(orientationChange, flipState, writes, array, fl.cache, inRetain, FALSE)
        ELSE allGlyphs(placeInteriorGlyphs(symbol.glyphStartIndex + 1,
                                           symbol.glyphStartIndex + symbol.numGlyphs,
                                           [glyphs |-> <<fl.first>>, cache |-> fl.cache],
                                           fontScale, g.glyphOffsetArray, lineOffsetX,
                                           lineOffsetY, flip, anchorPoint, tileAnchorPoint,
                                           symbol, g),
                       fl.last, flipState, writes, array, inRetain)

\* lines 359-363: fl is what placeFirstAndLastGlyph returned
manyGlyphs(symbol, fontScale, lineOffsetX, lineOffsetY, flip, keepUpright, g, array, anchorPoint, tileAnchorPoint, fl) ==
    IF ~fl.placed
    THEN PlaceOutcome("notEnoughRoom", symbol.flipState, 0, array, fl.cache, FALSE, FALSE)
    ELSE orientedGlyphs(symbol, fontScale, lineOffsetX, lineOffsetY, flip, keepUpright, g,
                        array, anchorPoint, tileAnchorPoint, fl,
                        project(fl.first.point, g.glCoordMatrix, 0).point,
                        project(fl.last.point, g.glCoordMatrix, 0).point)

\* lines 406-411
oneGlyph(singleGlyph, flipState, writes, array, inRetain) ==
    IF ~singleGlyph.placed
    THEN PlaceOutcome("notEnoughRoom", flipState, writes, array, singleGlyph.cache, inRetain,
                      FALSE)
    ELSE PlaceOutcome("placed", flipState, writes, addDynamicAttributes(array, singleGlyph),
                      singleGlyph.cache, inRetain, FALSE)

\* lines 398-405: a and b are the anchor and the end of its segment, projected
orientedGlyph(symbol, fontScale, lineOffsetX, lineOffsetY, flip, keepUpright, g, array, anchorPoint, tileAnchorPoint, projectionCache, a, b) ==
    LET decide == decidesOrientation(keepUpright, flip)
        orientationChange == requiresOrientationChange(symbol, a, b, g.aspectRatio)
        flipState == IF decide THEN flipStateFor(orientationChange) ELSE symbol.flipState
        writes == IF decide THEN 1 ELSE 0
        inRetain == decide /\ isInFlipRetainRange(a, b, g.aspectRatio)
    IN  IF decide /\ orientationChange # "null"
        THEN PlaceOutcome(orientationChange, flipState, writes, array, projectionCache,
                          inRetain, FALSE)
        ELSE oneGlyph(placeGlyphAlongLine(
                          scaled(fontScale, getoffsetX(g.glyphOffsetArray, symbol.glyphStartIndex)),
                          lineOffsetX, lineOffsetY, flip, anchorPoint, tileAnchorPoint,
                          symbol.segment, symbol.lineStartIndex,
                          symbol.lineStartIndex + symbol.lineLength, g.lineVertexArray,
                          g.labelPlaneMatrix, projectionCache, FALSE),
                      flipState, writes, array, inRetain)

\* lines 389-396: the end of the anchor's segment, projected or truncated
segmentEnd(tileAnchorPoint, tileSegmentEnd, a, posMatrix, projectedVertex) ==
    IF projectedVertex.signedDistanceFromCamera > 0
    THEN projectedVertex.point
    ELSE projectTruncatedLineSegment(tileAnchorPoint, tileSegmentEnd, a, ONE, posMatrix)

\* lines 387-396
singleGlyphSegment(symbol, fontScale, lineOffsetX, lineOffsetY, flip, keepUpright, g, array, anchorPoint, tileAnchorPoint, projectionCache, a, tileSegmentEnd) ==
    orientedGlyph(symbol, fontScale, lineOffsetX, lineOffsetY, flip, keepUpright, g, array,
                  anchorPoint, tileAnchorPoint, projectionCache, a,
                  segmentEnd(tileAnchorPoint, tileSegmentEnd, a, g.posMatrix,
                             project(tileSegmentEnd, g.posMatrix, 0)))

\* g: the arguments shared by the calls of one frame {posMatrix, labelPlaneMatrix,
\* glCoordMatrix, glyphOffsetArray, lineVertexArray, aspectRatio}
placeGlyphsAlongLine(symbol, fontSize, flip, keepUpright, g, array, anchorPoint, tileAnchorPoint, projectionCache) ==
    LET fontScale == fontSize \div ONE_EM
        lineOffsetX == scaled(fontScale, symbol.lineOffsetX)
        lineOffsetY == scaled(fontScale, symbol.lineOffsetY)
    IN  IF symbol.numGlyphs > 1
        THEN manyGlyphs(symbol, fontScale, lineOffsetX, lineOffsetY, flip, keepUpright, g, array,
                        anchorPoint, tileAnchorPoint,
                        placeFirstAndLastGlyph(fontScale, g.glyphOffsetArray, lineOffsetX,
                                               lineOffsetY, flip, anchorPoint, tileAnchorPoint,
                                               symbol, g.lineVertexArray, g.labelPlaneMatrix,
                                               projectionCache, FALSE))
        ELSE singleGlyphSegment(symbol, fontScale, lineOffsetX, lineOffsetY, flip, keepUpright,
                                g, array, anchorPoint, tileAnchorPoint, projectionCache,
                                project(tileAnchorPoint, g.posMatrix, 0).point,
                                lineVertex(g.lineVertexArray,
                                           symbol.lineStartIndex + symbol.segment + 1))

----------------------------------------------------------------------------
(* projection.js: hideGlyphs, updateLineLabels *)

\* -Infinity: a float below every coordinate of the frames
NegInfinity == -1073741824

\* line 570: twelve floats, the three components of four vertices
hiddenGlyphAttributes ==
    << NegInfinity, NegInfinity, 0,  NegInfinity, NegInfinity, 0,
       NegInfinity, NegInfinity, 0,  NegInfinity, NegInfinity, 0 >>

\* vertex k (from 1) of a run of floats, three floats to a vertex
float32Vertex(floats, k) ==
    [x |-> floats[3 * k - 2], y |-> floats[3 * k - 1], angle |-> floats[3 * k]]

hideGlyphs_perGlyph(num, dynamicLayoutVertexArray) ==
    dynamicLayoutVertexArray \o [k \in 1..num |-> float32Vertex(hiddenGlyphAttributes, 1)]

RECURSIVE hideGlyphs(_, _)
\* lines 574-582: each turn resizes the array by four vertices and sets the
\* floats of hiddenGlyphAttributes from float offset * 3 on
hideGlyphs(num, dynamicLayoutVertexArray) ==
    IF num <= 0
    THEN dynamicLayoutVertexArray
    ELSE hideGlyphs(num - 1, dynamicLayoutVertexArray
                             \o [k \in 1..4 |-> float32Vertex(hiddenGlyphAttributes, k)])

\* symbolSize.evaluateSizeForFeature: the size of the layer, thousandths of a pixel
evaluateSizeForFeature(b, symbol) == b.textSize

\* What the loop body leaves for one symbol: how it ended, the number of
\* assignments to its flipState by the unflipped and by the flipped placement,
\* whether the orientation was decided inside the retain range, and the
\* flipState before and after.
SymbolTrace(outcome, unflipped, flipped, before) ==
    [outcome |-> outcome,
     writesUnflipped |-> IF unflipped = <<>> THEN 0 ELSE unflipped[1].writes,
     writesFlipped |-> IF flipped = <<>> THEN 0 ELSE flipped[1].writes,
     inRetain |-> unflipped # <<>> /\ unflipped[1].inRetain,
     before |-> before,
     after |-> IF flipped # <<>> THEN flipped[1].flipState
               ELSE IF unflipped # <<>> THEN unflipped[1].flipState
               ELSE before]

symbolDone_alsoHidden(acc, s, outcome, useVertical, array, flipState, unflipped, flipped, threw) ==
    [useVertical |-> useVertical, array |-> array,
     placedSymbols |-> [acc.placedSymbols EXCEPT ![s + 1].flipState = flipState,
                                                 ![s + 1].hidden = @ \/ outcome = "notEnoughRoom"],
     trace |-> Append(acc.trace, [outcome |-> outcome,
                                  writesUnflipped |-> IF unflipped = <<>> THEN 0 ELSE unflipped[1].writes,
                                  writesFlipped |-> IF flipped = <<>> THEN 0 ELSE flipped[1].writes,
                                  inRetain |-> unflipped # <<>> /\ unflipped[1].inRetain,
                                  before |-> acc.placedSymbols[s + 1].flipState,
                                  after |-> flipState]),
     threw |-> threw]

\* What the loop leaves after symbol s (counted from 0): acc holds useVertical,
\* the dynamic layout array, the placed symbols and the trace.
symbolDone(acc, s, outcome, useVertical, array, flipState, unflipped, flipped, threw) ==
    [useVertical |-> useVertical, array |-> array,
     placedSymbols |-> [acc.placedSymbols EXCEPT ![s + 1].flipState = flipState],
     trace |-> Append(acc.trace, SymbolTrace(outcome, unflipped, flipped,
                                             acc.placedSymbols[s + 1].flipState)),
     threw |-> threw]

afterFlipped_noHide(acc, s, symbol, placeUnflipped, placeFlipped) ==
    symbolDone(acc, s, IF placeFlipped.result = "notEnoughRoom" THEN "flippedNotEnoughRoom"
                       ELSE "flipped",
               FALSE, placeFlipped.array, placeFlipped.flipState,
               <<placeUnflipped>>, <<placeFlipped>>, placeFlipped.threw)

\* lines 271-277: the label placed flipped
afterFlipped(acc, s, symbol, placeUnflipped, placeFlipped) ==
    IF placeFlipped.threw
    THEN symbolDone(acc, s, "threw", FALSE, placeFlipped.array, placeFlipped.flipState,
                    <<placeUnflipped>>, <<placeFlipped>>, TRUE)
    ELSE IF placeFlipped.result = "notEnoughRoom"
    THEN symbolDone(acc, s, "flippedNotEnoughRoom", FALSE,
                    hideGlyphs(symbol.numGlyphs, placeFlipped.array), placeFlipped.flipState,
                    <<placeUnflipped>>, <<placeFlipped>>, FALSE)
    ELSE symbolDone(acc, s, "flipped", FALSE, placeFlipped.array, placeFlipped.flipState,
                    <<placeUnflipped>>, <<placeFlipped>>, FALSE)

\* lines 267-277: the label placed unflipped
afterUnflipped(acc, s, symbol, fontSize, keepUpright, g, anchorPoint, tileAnchorPoint, placeUnflipped) ==
    IF placeUnflipped.threw
    THEN symbolDone(acc, s, "threw", FALSE, placeUnflipped.array, placeUnflipped.flipState,
                    <<placeUnflipped>>, <<>>, TRUE)
    ELSE IF placeUnflipped.result = "notEnoughRoom"
    THEN symbolDone(acc, s, "notEnoughRoom", FALSE,
                    hideGlyphs(symbol.numGlyphs, placeUnflipped.array),
                    placeUnflipped.flipState, <<placeUnflipped>>, <<>>, FALSE)
    ELSE IF placeUnflipped.result = "useVertical"
    THEN symbolDone(acc, s, "useVertical", TRUE,
                    hideGlyphs(symbol.numGlyphs, placeUnflipped.array),
                    placeUnflipped.flipState, <<placeUnflipped>>, <<>>, FALSE)
    ELSE IF placeUnflipped.result = "placed"
    THEN symbolDone(acc, s, "placed", FALSE, placeUnflipped.array, placeUnflipped.flipState,
                    <<placeUnflipped>>, <<>>, FALSE)
    ELSE afterFlipped(acc, s, symbol, placeUnflipped,
             placeGlyphsAlongLine([symbol EXCEPT !.flipState = placeUnflipped.flipState],
                                  fontSize, TRUE, keepUpright, g, placeUnflipped.array,
                                  anchorPoint, tileAnchorPoint, placeUnflipped.cache))

\* lines 246-277: the symbol's anchor is visible
visibleSymbol(acc, s, b, cam, keepUpright, symbol, tileAnchorPoint, perspectiveRatio, labelPlaneAnchorPoint) ==
    LET fontSize == evaluateSizeForFeature(b, symbol)
        pitchScaledFontSize == IF cam.pitchWithMap
                               THEN (fontSize * 1000) \div perspectiveRatio
                               ELSE (fontSize * perspectiveRatio) \div 1000
        g == [posMatrix |-> cam.posMatrix, labelPlaneMatrix |-> cam.labelPlaneMatrix,
              glCoordMatrix |-> cam.glCoordMatrix, glyphOffsetArray |-> b.glyphOffsetArray,
              lineVertexArray |-> b.lineVertexArray,
              aspectRatio |-> [width |-> cam.painter.transform.width,
                               height |-> cam.painter.transform.height]]
    IN  IF labelPlaneAnchorPoint.signedDistanceFromCamera <= 0
        THEN symbolDone(acc, s, "behindCamera", FALSE,
                        hideGlyphs(symbol.numGlyphs, acc.array), symbol.flipState,
                        <<>>, <<>>, FALSE)
        ELSE afterUnflipped(acc, s, symbol, pitchScaledFontSize, keepUpright, g,
                            labelPlaneAnchorPoint.point, tileAnchorPoint,
                            placeGlyphsAlongLine(symbol, pitchScaledFontSize, FALSE, keepUpright,
                                                 g, acc.array, labelPlaneAnchorPoint.point,
                                                 tileAnchorPoint, <<>>))

\* lines 234-248: anchorPos is the anchor in clip space
projectedSymbol(acc, s, b, cam, keepUpright, symbol, tileAnchorPoint, projectedAnchor, anchorPos) ==
    IF ~isVisible(anchorPos, cam.painter)
    THEN symbolDone(acc, s, "invisible", FALSE, hideGlyphs(symbol.numGlyphs, acc.array),
                    symbol.flipState, <<>>, <<>>, FALSE)
    ELSE visibleSymbol(acc, s, b, cam, keepUpright, symbol, tileAnchorPoint,
                       getPerspectiveRatio(cam.painter.transform.cameraToCenterDistance,
                                           anchorPos[4]),
                       project(Pt(projectedAnchor.x, projectedAnchor.y), cam.labelPlaneMatrix,
                               projectedAnchor.z))

\* lineLabelStep whose gate of line 228 holds back hidden symbols only
lineLabelStep_verticalUngated(acc, s, b, cam, keepUpright) ==
    LET symbol == acc.placedSymbols[s + 1]
        useVertical ==
            \/ acc.useVertical
            \/ /\ symbol.writingMode = WritingMode.vertical
               /\ (s = 0 \/ acc.placedSymbols[s].writingMode # WritingMode.horizontal)
        tileAnchorPoint == Pt(symbol.tileAnchorX, symbol.tileAnchorY)
        projectedAnchor == projectTilePoint(tileAnchorPoint.x, tileAnchorPoint.y)
    IN  IF symbol.hidden /\ ~useVertical
        THEN symbolDone(acc, s, "skipped", useVertical, hideGlyphs(symbol.numGlyphs, acc.array),
                        symbol.flipState, <<>>, <<>>, FALSE)
        ELSE projectedSymbol(acc, s, b, cam, keepUpright, symbol, tileAnchorPoint,
                             projectedAnchor,
                             transformMat4(projectedAnchor.x, projectedAnchor.y,
                                           projectedAnchor.z, cam.posMatrix))

\* lineLabelStep without the override of lines 219-223 for vertical-only symbols
lineLabelStep_noOverride(acc, s, b, cam, keepUpright) ==
    LET symbol == acc.placedSymbols[s + 1]
        useVertical == acc.useVertical
        tileAnchorPoint == Pt(symbol.tileAnchorX, symbol.tileAnchorY)
        projectedAnchor == projectTilePoint(tileAnchorPoint.x, tileAnchorPoint.y)
    IN  IF (symbol.hidden \/ symbol.writingMode = WritingMode.vertical) /\ ~useVertical
        THEN symbolDone(acc, s, "skipped", useVertical, hideGlyphs(symbol.numGlyphs, acc.array),
                        symbol.flipState, <<>>, <<>>, FALSE)
        ELSE projectedSymbol(acc, s, b, cam, keepUpright, symbol, tileAnchorPoint,
                             projectedAnchor,
                             transformMat4(projectedAnchor.x, projectedAnchor.y,
                                           projectedAnchor.z, cam.posMatrix))

\* lines 214-277: the body of the loop for symbol s
lineLabelStep(acc, s, b, cam, keepUpright) ==
    LET symbol == acc.placedSymbols[s + 1]
        useVertical ==
            \/ acc.useVertical
            \/ /\ symbol.writingMode = WritingMode.vertical
               /\ (s = 0 \/ acc.placedSymbols[s].writingMode # WritingMode.horizontal)
        tileAnchorPoint == Pt(symbol.tileAnchorX, symbol.tileAnchorY)
        projectedAnchor == projectTilePoint(tileAnchorPoint.x, tileAnchorPoint.y)
    IN  IF (symbol.hidden \/ symbol.writingMode = WritingMode.vertical) /\ ~useVertical
        THEN symbolDone(acc, s, "skipped", useVertical, hideGlyphs(symbol.numGlyphs, acc.array),
                        symbol.flipState, <<>>, <<>>, FALSE)
        ELSE projectedSymbol(acc, s, b, cam, keepUpright, symbol, tileAnchorPoint,
                             projectedAnchor,
                             transformMat4(projectedAnchor.x, projectedAnchor.y,
                                           projectedAnchor.z, cam.posMatrix))

RECURSIVE lineLabelLoop(_, _, _, _, _)
\* line 213; an exception leaves the loop
lineLabelLoop(acc, s, b, cam, keepUpright) ==
    IF s >= Len(acc.placedSymbols) \/ acc.threw
    THEN acc
    ELSE lineLabelLoop(lineLabelStep(acc, s, b, cam, keepUpright), s + 1, b, cam, keepUpright)

clear_kept(dynamicLayoutVertexArray) == dynamicLayoutVertexArray

\* line 204: dynamicLayoutVertexArray.clear()
clear(dynamicLayoutVertexArray) == <<>>

\* b: the bucket (placed symbols, line vertices, glyph offsets, size data) and
\* its dynamic layout array; cam: posMatrix, painter, labelPlaneMatrix,
\* glCoordMatrix, pitchWithMap.  getElevation is null.
updateLineLabels(b, dynamicLayoutVertexArray, cam, keepUpright) ==
    lineLabelLoop([useVertical |-> FALSE, array |-> clear(dynamicLayoutVertexArray),
                   placedSymbols |-> b.placedSymbols, trace |-> <<>>, threw |-> FALSE],
                  0, b, cam, keepUpright)

----------------------------------------------------------------------------
(* Line labels: inputs *)

\* Camera bearings as (a, b, c): the tile's x axis appears on screen along
\* (a, b) / c, y pointing down; a^2 + b^2 = c^2 but for the three bearings
\* next to the vertical axis, where the camera is zoomed in by 0.08 percent.
\* Bearings 3 and 5 are 2.3 degrees off the vertical axis, bearing 4 is on it,
\* bearing 11 is 2.3 degrees before the axis is met again.
Bearings ==
    << <<1, 0, 1>>, <<4, 3, 5>>, <<3, 4, 5>>, <<1, 25, 25>>, <<0, 1, 1>>, <<-1, 25, 25>>,
       <<-3, 4, 5>>, <<-4, 3, 5>>, <<-1, 0, 1>>, <<-4, -3, 5>>, <<-3, -4, 5>>,
       <<-1, -25, 25>> >>

\* the viewport of the line label frames
Painter(cameraToCenterDistance) ==
    [width |-> 100, height |-> 50,
     transform |-> [width |-> 100, height |-> 50,
                    cameraToCenterDistance |-> cameraToCenterDistance]]

IdentityMatrix == << 1, 0, 0, 0,  0, 1, 0, 0,  0, 0, 1, 0,  0, 0, 0, 1 >>

\* tile -> clip space of a flat camera turned about the tile point (50, 25),
\* which sits at the viewport center; w = 50 c
RotatedPosMatrix(a, b, c) ==
    << a, -2 * b, 0, 0,   -b, -2 * a, 0, 0,   0, 0, 1, 0,
       25 * b - 50 * a, 100 * b + 50 * a, 0, 50 * c >>

\* tile -> pixels of the same camera; w = c
RotatedLabelPlaneMatrix(a, b, c) ==
    << a, b, 0, 0,   -b, a, 0, 0,   0, 0, 1, 0,
       50 * c - 50 * a + 25 * b, 25 * c - 50 * b - 25 * a, 0, c >>

\* tile -> pixels of the pitched camera (PitchedMatrix followed by the viewport)
PitchedLabelPlaneMatrix ==
    << 50, 0, 0, 0,   -900, -400, 0, -18,   0, 0, 1, 0,   22500, 11250, 0, 500 >>

\* sense = 1 turns clockwise on screen, sense = -1 the other way.  With
\* pitchWithMap the label plane is the tile plane and glCoordMatrix projects it;
\* without, the label plane is the viewport and glCoordMatrix undoes the viewport.
RotatedCamera(k, sense, pitchWithMap) ==
    LET a == Bearings[k + 1][1]
        b == sense * Bearings[k + 1][2]
        c == Bearings[k + 1][3]
    IN  [name |-> <<"bearing", k, sense>>,
         posMatrix |-> RotatedPosMatrix(a, b, c),
         painter |-> Painter(50 * c * ONE),
         labelPlaneMatrix |-> IF pitchWithMap THEN IdentityMatrix
                              ELSE RotatedLabelPlaneMatrix(a, b, c),
         glCoordMatrix |-> IF pitchWithMap THEN RotatedPosMatrix(a, b, c) ELSE FlatMatrix,
         pitchWithMap |-> pitchWithMap]

PitchedCamera(pitchWithMap) ==
    [name |-> <<"pitched", 0, 1>>,
     posMatrix |-> PitchedMatrix,
     painter |-> Painter(50 * ONE),
     labelPlaneMatrix |-> IF pitchWithMap THEN IdentityMatrix ELSE PitchedLabelPlaneMatrix,
     glCoordMatrix |-> IF pitchWithMap THEN PitchedMatrix ELSE FlatMatrix,
     pitchWithMap |-> pitchWithMap]

\* The cameras of the frames: every bearing with viewport-aligned labels, four
\* bearings with pitchWithMap, and the pitched camera with and without it.
Cameras ==
    { RotatedCamera(k, 1, FALSE) : k \in 0..(Len(Bearings) - 1) }
    \cup { RotatedCamera(k, 1, TRUE) : k \in {0, 3, 5, 8} }
    \cup { PitchedCamera(FALSE), PitchedCamera(TRUE) }

\* bucket.lineVertexArray: nine two-point lines
LineVertices ==
    << P(5, 25), P(95, 25),       \* 0: through the viewport center
       P(45, 25), P(95, 25),      \* 2: short on the left of the center
       P(48, 25), P(52, 25),      \* 4: too short for a label
       P(405, 25), P(495, 25),    \* 6: far off the viewport
       P(5, 28), P(95, 28),       \* 8: behind the pitched camera
       P(105, 25), P(295, 25),    \* 10: across the padded edge of the viewport
       P(5, 20), P(95, 20),       \* 12: far from the pitched camera
       P(50, 5), P(50, 45),       \* 14: running behind the pitched camera
       P(-450, 0), P(550, 0) >>   \* 16: ten camera distances from the pitched camera

\* bucket.glyphOffsetArray
GlyphOffsets ==
    << -40 * ONE, 0, 40 * ONE,    \* 0: three glyphs around the anchor
       5 * ONE,                   \* 3: one glyph
       60 * ONE,                  \* 4: one glyph past the end of the line
       0, 16 * ONE, 32 * ONE >>   \* 5: three glyphs right of the anchor

PlacedSymbol(ax, ay, writingMode, glyphStartIndex, numGlyphs, lineStartIndex, hidden) ==
    [tileAnchorX |-> ax * ONE, tileAnchorY |-> ay * ONE, writingMode |-> writingMode,
     glyphStartIndex |-> glyphStartIndex, numGlyphs |-> numGlyphs,
     lineStartIndex |-> lineStartIndex, lineLength |-> 2, segment |-> 0,
     lineOffsetX |-> 0, lineOffsetY |-> 0,
     flipState |-> FlipState.unknown, hidden |-> hidden]

SymbolBucket(name, placedSymbols) ==
    [name |-> name, placedSymbols |-> placedSymbols, lineVertexArray |-> LineVertices,
     glyphOffsetArray |-> GlyphOffsets, textSize |-> 24000]

\* The buckets as layout leaves them: every flipState unknown.
Buckets ==
    { SymbolBucket("single",
        << PlacedSymbol(50, 25, WritingMode.horizontalOnly, 3, 1, 0, FALSE),
           PlacedSymbol(50, 25, WritingMode.horizontalOnly, 4, 1, 0, FALSE) >>),
      SymbolBucket("pair",
        << PlacedSymbol(50, 25, WritingMode.horizontal, 0, 3, 0, FALSE),
           PlacedSymbol(50, 25, WritingMode.vertical, 0, 3, 0, FALSE) >>),
      SymbolBucket("vertical",
        << PlacedSymbol(50, 25, WritingMode.vertical, 0, 3, 0, FALSE),
           PlacedSymbol(50, 25, WritingMode.vertical, 3, 1, 0, FALSE) >>),
      SymbolBucket("gates",
        << PlacedSymbol(50, 25, WritingMode.horizontalOnly, 0, 3, 0, TRUE),
           PlacedSymbol(450, 25, WritingMode.horizontalOnly, 0, 3, 6, FALSE),
           PlacedSymbol(50, 28, WritingMode.horizontalOnly, 0, 3, 8, FALSE),
           PlacedSymbol(50, 25, WritingMode.horizontalOnly, 0, 3, 4, FALSE),
           PlacedSymbol(50, 25, WritingMode.horizontalOnly, 5, 3, 2, FALSE) >>),
      SymbolBucket("pairs",
        << PlacedSymbol(50, 25, WritingMode.horizontal, 0, 3, 0, FALSE),
           PlacedSymbol(50, 25, WritingMode.vertical, 0, 3, 0, FALSE),
           PlacedSymbol(50, 25, WritingMode.horizontal, 5, 3, 2, TRUE),
           PlacedSymbol(50, 25, WritingMode.vertical, 5, 3, 2, FALSE) >>),
      SymbolBucket("faded",
        << PlacedSymbol(50, 25, WritingMode.vertical, 0, 3, 0, TRUE),
           PlacedSymbol(50, 25, WritingMode.horizontal, 0, 3, 0, FALSE),
           PlacedSymbol(50, 25, WritingMode.vertical, 0, 3, 0, TRUE) >>) }

NoBucket == SymbolBucket("none", <<>>)

\* the bucket named name, fresh from layout
FreshBucket(name) == CHOOSE b \in Buckets \cup {NoBucket} : b.name = name

flipStates(placedSymbols) == [s \in DOMAIN placedSymbols |-> placedSymbols[s].flipState]

----------------------------------------------------------------------------
(* Line labels: frames *)

NoRotation == [started |-> FALSE, bearing |-> 0, sense |-> 1, flipped |-> FALSE, changes |-> 0]

NoLineLabels ==
    /\ bucket = NoBucket
    /\ dynamicLayout = <<>>
    /\ frame = [op |-> "none"]
    /\ rotation = NoRotation

NoCollisionIndex ==
    /\ transform = CHOOSE tr \in Transforms : tr.name = "flat"
    /\ grid = <<>>
    /\ ignoredGrid = <<>>
    /\ last = [op |-> "constructor"]

InitLL ==
    /\ NoCollisionIndex
    /\ bucket \in Buckets
    /\ dynamicLayout = <<>>
    /\ frame = [op |-> "none"]
    /\ rotation = NoRotation

\* whether symbol s was decided inside the retain range by the call before,
\* made with keepUpright
inRetainBefore(s) ==
    frame.op = "updateLineLabels" /\ frame.keepUpright /\ frame.trace[s].inRetain

\* One frame: updateLineLabels on the bucket under camera cam.
Frame(cam, keepUpright) ==
    \E r \in {updateLineLabels(bucket, dynamicLayout, cam, keepUpright)} :
        /\ bucket' = [bucket EXCEPT !.placedSymbols = r.placedSymbols]
        /\ dynamicLayout' = r.array
        /\ frame' = [op |-> "updateLineLabels", camera |-> cam.name,
                     pitchWithMap |-> cam.pitchWithMap, keepUpright |-> keepUpright,
                     trace |-> r.trace, threw |-> r.threw,
                     inRetainBefore |-> [s \in DOMAIN r.trace |-> inRetainBefore(s)]]

UpdateLineLabels ==
    /\ \E cam \in Cameras, keepUpright \in BOOLEAN : Frame(cam, keepUpright)
    /\ UNCHANGED rotation

\* the camera that made the frame
CameraOf(f) == CHOOSE cam \in Cameras : cam.name = f.camera /\ cam.pitchWithMap = f.pitchWithMap

\* A rotation watches one single-glyph label: symbol `label` of the bucket.
RotatingLabels == { [bucket |-> "single", label |-> 1], [bucket |-> "vertical", label |-> 2] }

watched == (CHOOSE l \in RotatingLabels : l.bucket = bucket.name).label

\* the flip decision of the frame for the watched label
flippedIn(f) == f.trace[watched].outcome \in {"flipped", "flippedNotEnoughRoom"}

\* bearings at which a rotation may start: the label reads left to right
StartBearings == 0..2

\* the last bearing before the projected line meets the vertical axis again
LastBearing == Len(Bearings) - 1

\* the first frame of a rotation, keepUpright set
StartRotation ==
    /\ ~rotation.started
    /\ \E k \in StartBearings, sense \in {1, -1}, pwm \in BOOLEAN :
        /\ Frame(RotatedCamera(k, sense, pwm), TRUE)
        /\ rotation' = [started |-> TRUE, bearing |-> k, sense |-> sense,
                        flipped |-> flippedIn(frame'), changes |-> 0]

\* a later frame: the bearing has grown, in the sense the rotation started with
Rotate ==
    /\ rotation.started
    /\ \E k \in (rotation.bearing + 1)..LastBearing, pwm \in BOOLEAN :
        /\ Frame(RotatedCamera(k, rotation.sense, pwm), TRUE)
        /\ rotation' = [rotation EXCEPT
                            !.bearing = k,
                            !.flipped = flippedIn(frame'),
                            !.changes = IF flippedIn(frame') # rotation.flipped THEN @ + 1 ELSE @]

InitRotate ==
    /\ NoCollisionIndex
    /\ bucket \in {b \in Buckets : \E l \in RotatingLabels : l.bucket = b.name}
    /\ dynamicLayout = <<>>
    /\ frame = [op |-> "none"]
    /\ rotation = NoRotation

----------------------------------------------------------------------------
(* util/clip_line.js: clipLine, on one line and the rectangle x1 y1 x2 y2 *)

\* Math.round of a coordinate, to whole pixels
RoundPx(v) == ((2 * v + ONE) \div (2 * ONE)) * ONE

\* the point of p0 p1 at abscissa x / at ordinate y, rounded by Point._round
cutAtX(p0, p1, x) ==
    Pt(RoundPx(x), RoundPx(p0.y + Quotient((p1.y - p0.y) * (x - p0.x), p1.x - p0.x)))
cutAtY(p0, p1, y) ==
    Pt(RoundPx(p0.x + Quotient((p1.x - p0.x) * (y - p0.y), p1.y - p0.y)), RoundPx(y))

\* One segment <<p0, p1>> against one side; <<>> once the segment is dropped.
clipLeft(s, x1) ==
    IF s = <<>> THEN s
    ELSE IF s[1].x < x1 /\ s[2].x < x1 THEN <<>>
    ELSE IF s[1].x < x1 THEN <<cutAtX(s[1], s[2], x1), s[2]>>
    ELSE IF s[2].x < x1 THEN <<s[1], cutAtX(s[1], s[2], x1)>>
    ELSE s

clipTop(s, y1) ==
    IF s = <<>> THEN s
    ELSE IF s[1].y < y1 /\ s[2].y < y1 THEN <<>>
    ELSE IF s[1].y < y1 THEN <<cutAtY(s[1], s[2], y1), s[2]>>
    ELSE IF s[2].y < y1 THEN <<s[1], cutAtY(s[1], s[2], y1)>>
    ELSE s

clipRight(s, x2) ==
    IF s = <<>> THEN s
    ELSE IF s[1].x >= x2 /\ s[2].x >= x2 THEN <<>>
    ELSE IF s[1].x >= x2 THEN <<cutAtX(s[1], s[2], x2), s[2]>>
    ELSE IF s[2].x >= x2 THEN <<s[1], cutAtX(s[1], s[2], x2)>>
    ELSE s

clipBottom(s, y2) ==
    IF s = <<>> THEN s
    ELSE IF s[1].y >= y2 /\ s[2].y >= y2 THEN <<>>
    ELSE IF s[1].y >= y2 THEN <<cutAtY(s[1], s[2], y2), s[2]>>
    ELSE IF s[2].y >= y2 THEN <<s[1], cutAtY(s[1], s[2], y2)>>
    ELSE s

RECURSIVE clipSegments(_, _, _, _, _, _, _)
\* segment i of the line; a kept segment continues the last clipped line when
\* it starts where that line ends, and opens a new one otherwise
clipSegments(line, i, clippedLines, x1, y1, x2, y2) ==
    IF i >= Len(line)
    THEN clippedLines
    ELSE LET s == clipBottom(clipRight(clipTop(clipLeft(<<line[i], line[i + 1]>>, x1), y1), x2), y2)
             n == Len(clippedLines)
             next == IF s = <<>> THEN clippedLines
                     ELSE IF n = 0 \/ s[1] # clippedLines[n][Len(clippedLines[n])]
                     THEN Append(clippedLines, <<s[1], s[2]>>)
                     ELSE [clippedLines EXCEPT ![n] = Append(@, s[2])]
         IN  clipSegments(line, i + 1, next, x1, y1, x2, y2)

clipLine(line, x1, y1, x2, y2) == clipSegments(line, 1, <<>>, x1, y1, x2, y2)

----------------------------------------------------------------------------
(* symbol/path_interpolator.js *)

RECURSIVE pathDistances(_, _, _)
\* the distance from the first point to every point of the path
pathDistances(points, i, distances) ==
    IF i > Len(points)
    THEN distances
    ELSE pathDistances(points, i + 1,
                       Append(distances, distances[Len(distances)] + PtDist(points[i], points[i - 1])))

\* reset(points, padding)
PathInterpolator(points, padding) ==
    LET distances == pathDistances(points, 2, <<0>>)
        length == distances[Len(distances)]
        pad == Min(padding, length \div 2)
    IN  [points |-> points, distances |-> distances, length |-> length, padding |-> pad,
         paddedLength |-> length - 2 * pad]

\* lerp(t) for t = num / den in [0, 1]
lerp(interpolator, num, den) ==
    IF Len(interpolator.points) = 1
    THEN interpolator.points[1]
    ELSE LET distToTarget == (num * interpolator.paddedLength) \div den + interpolator.padding
             reached == {k \in 2..Len(interpolator.points) :
                             interpolator.distances[k] >= distToTarget}
             currentIndex == IF reached = {} THEN Len(interpolator.points)
                             ELSE CHOOSE k \in reached : \A j \in reached : k <= j
             p0 == interpolator.points[currentIndex - 1]
             p1 == interpolator.points[currentIndex]
             distOfPrevIdx == interpolator.distances[currentIndex - 1]
             segmentLength == interpolator.distances[currentIndex] - distOfPrevIdx
         IN  IF segmentLength > 0
             THEN PtAdd(p0, PtScale(PtSub(p1, p0), distToTarget - distOfPrevIdx, segmentLength))
             ELSE p0

----------------------------------------------------------------------------
(* CollisionIndex.placeCollisionCircles *)

\* lines 187-196: the glyph path without the two anchor points
projectedPathOf(firstGlyph, lastGlyph) ==
    [i \in 1..(Len(firstGlyph.path) - 1) |-> firstGlyph.path[Len(firstGlyph.path) + 1 - i]]
        \o SubSeq(lastGlyph.path, 2, Len(lastGlyph.path))

\* lines 203-219: the path in screen space when a labelToScreenMatrix is given
\* (<<>> stands for none); empty when a point is behind the camera
screenPathOf(projectedPath, labelToScreenMatrix) ==
    IF labelToScreenMatrix = <<>>
    THEN projectedPath
    ELSE LET screenSpacePath ==
                 [i \in DOMAIN projectedPath |-> project(projectedPath[i], labelToScreenMatrix, 0)]
         IN  IF \E i \in DOMAIN screenSpacePath : screenSpacePath[i].signedDistanceFromCamera <= 0
             THEN <<>>
             ELSE [i \in DOMAIN screenSpacePath |-> screenSpacePath[i].point]

\* lines 221-247: the visible segments of the path
visibleSegments(tr, projectedPath) ==
    IF Len(projectedPath) = 0
    THEN <<>>
    ELSE LET xs == [i \in DOMAIN projectedPath |-> projectedPath[i].x]
             ys == [i \in DOMAIN projectedPath |-> projectedPath[i].y]
             minX == SeqMin(xs, 1)
             minY == SeqMin(ys, 1)
             maxX == SeqMax(xs, 1)
             maxY == SeqMax(ys, 1)
             screenPlaneMin == -viewportPadding * ONE
             screenPlaneMaxX == screenRightBoundary(tr)
             screenPlaneMaxY == screenBottomBoundary(tr)
         IN  IF /\ minX >= screenPlaneMin /\ maxX <= screenPlaneMaxX
                /\ minY >= screenPlaneMin /\ maxY <= screenPlaneMaxY
             THEN <<projectedPath>>
             ELSE IF \/ maxX < screenPlaneMin \/ minX > screenPlaneMaxX
                     \/ maxY < screenPlaneMin \/ minY > screenPlaneMaxY
             THEN <<>>
             ELSE clipLine(projectedPath, screenPlaneMin, screenPlaneMin,
                           screenPlaneMaxX, screenPlaneMaxY)

\* lines 256-260; circleDist = radius * 2.5
numCirclesOf(interpolator, radius) ==
    IF 2 * interpolator.length <= radius
    THEN 1
    ELSE (2 * interpolator.paddedLength + 5 * radius - 1) \div (5 * radius) + 1

\* circleStep returning at a hit also when the collision circles are shown
circleStep_alwaysReturning(tr, g, a, c, circlePosition, radius) ==
    LET centerX == circlePosition.x + viewportPadding * ONE
        centerY == circlePosition.y + viewportPadding * ONE
        x1 == centerX - radius
        y1 == centerY - radius
        x2 == centerX + radius
        y2 == centerY + radius
        hit == /\ ~a.allowOverlap
               /\ GridHitTestCircle(g, centerX, centerY, radius, a.collisionGroupPredicate)
    IN  [circles |-> c.circles \o <<centerX, centerY, radius, 0>>,
         entirelyOffscreen |-> c.entirelyOffscreen /\ isOffscreen(tr, x1, y1, x2, y2),
         inGrid |-> c.inGrid \/ isInsideGrid(tr, x1, y1, x2, y2),
         collisionDetected |-> c.collisionDetected \/ hit,
         returned |-> hit]

\* lines 264-294: one circle.  c holds what the loops accumulate; returned
\* tells that the early return of line 286 was taken.
circleStep(tr, g, a, c, circlePosition, radius) ==
    LET centerX == circlePosition.x + viewportPadding * ONE
        centerY == circlePosition.y + viewportPadding * ONE
        x1 == centerX - radius
        y1 == centerY - radius
        x2 == centerX + radius
        y2 == centerY + radius
        hit == /\ ~a.allowOverlap
               /\ GridHitTestCircle(g, centerX, centerY, radius, a.collisionGroupPredicate)
    IN  [circles |-> c.circles \o <<centerX, centerY, radius, 0>>,
         entirelyOffscreen |-> c.entirelyOffscreen /\ isOffscreen(tr, x1, y1, x2, y2),
         inGrid |-> c.inGrid \/ isInsideGrid(tr, x1, y1, x2, y2),
         collisionDetected |-> c.collisionDetected \/ hit,
         returned |-> hit /\ ~a.showCollisionCircles]

RECURSIVE segmentCircles(_, _, _, _, _, _, _, _)
\* the loop of lines 262-295
segmentCircles(tr, g, a, c, interpolator, radius, numCircles, i) ==
    IF c.returned \/ i >= numCircles
    THEN c
    ELSE segmentCircles(tr, g, a,
                        circleStep(tr, g, a, c, lerp(interpolator, i, Max(numCircles - 1, 1)),
                                   radius),
                        interpolator, radius, numCircles, i + 1)

\* lines 251-260: the circles of one segment
interpolatedCircles(tr, g, a, c, interpolator, radius) ==
    segmentCircles(tr, g, a, c, interpolator, radius, numCirclesOf(interpolator, radius), 0)

RECURSIVE pathCircles(_, _, _, _, _, _, _)
\* the loop of lines 249-296
pathCircles(tr, g, a, c, segments, radius, k) ==
    IF c.returned \/ k > Len(segments)
    THEN c
    ELSE pathCircles(tr, g, a,
                     interpolatedCircles(tr, g, a, c,
                                         PathInterpolator(segments[k], radius \div 4), radius),
                     segments, radius, k + 1)

\* what the loops start from
noCircles ==
    [circles |-> <<>>, entirelyOffscreen |-> TRUE, inGrid |-> FALSE,
     collisionDetected |-> FALSE, returned |-> FALSE]

\* lines 286-304: c is what the loops have accumulated
circlesResult(a, screenAnchorPoint, c) ==
    IF c.returned
    THEN [circles |-> <<>>, offscreen |-> FALSE, collisionDetected |-> c.collisionDetected,
          occluded |-> FALSE]
    ELSE [circles |-> IF (~a.showCollisionCircles /\ c.collisionDetected) \/ ~c.inGrid
                      THEN <<>> ELSE c.circles,
          offscreen |-> c.entirelyOffscreen,
          collisionDetected |-> c.collisionDetected,
          occluded |-> screenAnchorPoint.occluded]

\* circlesAlongGlyphs without the occlusion test of line 176
circlesAlongGlyphs_ignoringOcclusion(tr, g, a, screenAnchorPoint, radius, firstAndLastGlyph) ==
    IF firstAndLastGlyph.placed
    THEN circlesResult(a, screenAnchorPoint,
             pathCircles(tr, g, a, noCircles,
                 visibleSegments(tr, screenPathOf(projectedPathOf(firstAndLastGlyph.first,
                                                                  firstAndLastGlyph.last),
                                                  a.labelToScreenMatrix)),
                 radius, 1))
    ELSE circlesResult(a, screenAnchorPoint, noCircles)

\* lines 176-296: the circles along the path between the first and last glyph
circlesAlongGlyphs(tr, g, a, screenAnchorPoint, radius, firstAndLastGlyph) ==
    IF firstAndLastGlyph.placed /\ ~screenAnchorPoint.occluded
    THEN circlesResult(a, screenAnchorPoint,
             pathCircles(tr, g, a, noCircles,
                 visibleSegments(tr, screenPathOf(projectedPathOf(firstAndLastGlyph.first,
                                                                  firstAndLastGlyph.last),
                                                  a.labelToScreenMatrix)),
                 radius, 1))
    ELSE circlesResult(a, screenAnchorPoint, noCircles)

\* lines 153-181: screenAnchorPoint is the anchor on the viewport
circlesAtAnchor(tr, g, a, screenAnchorPoint) ==
    LET symbol == a.symbol
        perspectiveRatio == screenAnchorPoint.perspectiveRatio
        labelPlaneFontSize == IF a.pitchWithMap
                              THEN (a.fontSize * 1000) \div perspectiveRatio
                              ELSE (a.fontSize * perspectiveRatio) \div 1000
        labelPlaneFontScale == labelPlaneFontSize \div ONE_EM
        projectedAnchor == projectTilePoint(symbol.tileAnchorX, symbol.tileAnchorY)
        radius == (a.circlePixelDiameter * perspectiveRatio) \div 2000 + a.textPixelPadding
    IN  IF screenAnchorPoint.signedDistanceFromCamera > 0
        THEN circlesAlongGlyphs(tr, g, a, screenAnchorPoint, radius,
                 placeFirstAndLastGlyph(labelPlaneFontScale, a.glyphOffsetArray,
                                        scaled(labelPlaneFontScale, symbol.lineOffsetX),
                                        scaled(labelPlaneFontScale, symbol.lineOffsetY),
                                        FALSE,
                                        project(Pt(projectedAnchor.x, projectedAnchor.y),
                                                a.labelPlaneMatrix, projectedAnchor.z).point,
                                        Pt(symbol.tileAnchorX, symbol.tileAnchorY), symbol,
                                        a.lineVertexArray, a.labelPlaneMatrix, <<>>, FALSE))
        ELSE circlesAlongGlyphs(tr, g, a, screenAnchorPoint, radius, [placed |-> FALSE])

\* lines 143-152: the anchor of the label.  transform.elevation is null:
\* getElevation returns [0, 0, 0]
circleAnchor(symbol) ==
    << projectTilePoint(symbol.tileAnchorX, symbol.tileAnchorY).x,
       projectTilePoint(symbol.tileAnchorX, symbol.tileAnchorY).y,
       projectTilePoint(symbol.tileAnchorX, symbol.tileAnchorY).z >>

\* a: the arguments of the call, the key of the feature and the fog opacity at
\* the anchor
placedCircles(tr, g, a) ==
    circlesAtAnchor(tr, g, a,
                    projectAndGetPerspectiveRatio(tr, a.posMatrix, circleAnchor(a.symbol),
                                                  a.tileID, checkOcclusionFor(tr, 0),
                                                  a.fogOpacity))

\* The method on the index [grid, ignoredGrid]: it reads the active grid and
\* writes neither grid.
placeCollisionCircles(tr, index, a) ==
    [grid |-> index.grid, ignoredGrid |-> index.ignoredGrid,
     result |-> placedCircles(tr, index.grid, a)]

----------------------------------------------------------------------------
(* The collision pass: line labels *)

\* viewport * posMatrix of the camera: the label plane of viewport-aligned
\* labels, and the labelToScreenMatrix of labels pitched with the map
ScreenMatrix(tr) == IF tr.name = "pitched" THEN PitchedLabelPlaneMatrix ELSE IdentityMatrix

\* the line labels of the pass, on the lines of LineVertices
LineSymbol(ax, ay, glyphStartIndex, numGlyphs, lineStartIndex) ==
    PlacedSymbol(ax, ay, WritingMode.horizontal, glyphStartIndex, numGlyphs, lineStartIndex, FALSE)

CircleArgs(tr, symbol, key, fogOpacity, allowOverlap, showCollisionCircles, pitchWithMap, collisionGroupPredicate) ==
    [allowOverlap |-> allowOverlap, symbol |-> symbol, lineVertexArray |-> LineVertices,
     glyphOffsetArray |-> GlyphOffsets, fontSize |-> 24000, posMatrix |-> tr.posMatrix,
     labelPlaneMatrix |-> IF pitchWithMap THEN IdentityMatrix ELSE ScreenMatrix(tr),
     labelToScreenMatrix |-> IF pitchWithMap THEN ScreenMatrix(tr) ELSE <<>>,
     showCollisionCircles |-> showCollisionCircles, pitchWithMap |-> pitchWithMap,
     collisionGroupPredicate |-> collisionGroupPredicate,
     circlePixelDiameter |-> 24 * ONE, textPixelPadding |-> 0, tileID |-> TRUE,
     key |-> key, fogOpacity |-> fogOpacity]

\* The line labels of the pass.  On the flat camera: a label of three glyphs
\* whose two circles lie right of the center, asked for plainly, with the
\* collision circles shown and with overlap allowed; a label of one glyph under
\* a group predicate; a label across the padded edge of the viewport.  On the
\* pitched camera: a label pitched with the map, a label in fog, a label
\* one of whose path points is behind the camera, a label ten camera
\* distances away and a label anchored behind the camera, both allowed to
\* overlap.
PlaceCirclesArgs(tr) ==
    LET beside == LineSymbol(50, 25, 5, 3, 2)
        single == LineSymbol(50, 25, 3, 1, 0)
    IN  { CircleArgs(tr, beside, Key(1, 0, 0), 0, FALSE, FALSE, FALSE, GroupIDs) }
        \cup
        IF tr.name = "flat" THEN
            { CircleArgs(tr, beside, Key(1, 0, 0), 0, FALSE, TRUE, FALSE, GroupIDs),
              CircleArgs(tr, beside, Key(1, 0, 0), 0, TRUE, FALSE, FALSE, GroupIDs),
              CircleArgs(tr, single, Key(1, 1, 1), 0, FALSE, FALSE, FALSE, {1}),
              CircleArgs(tr, LineSymbol(190, 25, 0, 3, 10), Key(2, 0, 0), 0, FALSE, FALSE, FALSE,
                         GroupIDs) }
        ELSE IF tr.name = "pitched" THEN
            { CircleArgs(tr, single, Key(2, 1, 1), 0, FALSE, TRUE, TRUE, GroupIDs),
              CircleArgs(tr, single, Key(2, 1, 1), 95, FALSE, FALSE, FALSE, GroupIDs),
              CircleArgs(tr, LineSymbol(50, 25, 3, 1, 14), Key(2, 0, 0), 0, FALSE, FALSE, TRUE,
                         GroupIDs),
              CircleArgs(tr, LineSymbol(50, 0, 0, 3, 16), Key(2, 0, 1), 0, TRUE, FALSE, FALSE,
                         GroupIDs),
              CircleArgs(tr, LineSymbol(50, 28, 3, 1, 8), Key(2, 1, 0), 0, TRUE, FALSE, FALSE,
                         GroupIDs) }
        ELSE {}

PlaceCollisionCircles ==
    \E a \in PlaceCirclesArgs(transform) :
        \E r \in {placeCollisionCircles(transform, ci, a)} :
            /\ grid' = r.grid
            /\ ignoredGrid' = r.ignoredGrid
            /\ last' = [op |-> "placeCollisionCircles", args |-> a, result |-> r.result,
                        again |-> SameCall("placeCollisionCircles", a),
                        first |-> IF SameCall("placeCollisionCircles", a) THEN last.result
                                  ELSE r.result]
            /\ UNCHANGED transform

\* placement inserts the circles of a label it has placed without a collision,
\* each label once
InsertCollisionCircles ==
    /\ last.op = "placeCollisionCircles"
    /\ last.result.circles # <<>>
    /\ ~last.result.collisionDetected
    /\ Len(grid) + Len(ignoredGrid) + Len(last.result.circles) \div 4 <= MaxEntries
    /\ \A i \in DOMAIN allEntries :
           allEntries[i].kind = "circle" => allEntries[i].key # last.args.key
    /\ \E ignorePlacement \in BOOLEAN :
        \E r \in {insertCollisionCircles(ci, last.result.circles, ignorePlacement,
                                         last.args.key)} :
            /\ grid' = r.grid
            /\ ignoredGrid' = r.ignoredGrid
            /\ last' = [op |-> "insertCollisionCircles", collisionCircles |-> last.result.circles,
                        ignorePlacement |-> ignorePlacement, key |-> last.args.key]
            /\ UNCHANGED transform

----------------------------------------------------------------------------
(* Specifications *)

\* the collision pass
Init == InitCI /\ NoLineLabels

Next ==
    \/ PlaceCollisionBox /\ UNCHANGED llvars
    \/ InsertCollisionBox /\ UNCHANGED llvars
    \/ PlaceCollisionCircles /\ UNCHANGED llvars
    \/ InsertCollisionCircles /\ UNCHANGED llvars
    \/ QueryRenderedSymbols /\ UNCHANGED llvars

Spec == Init /\ [][Next]_vars

\* the line label frames of one bucket, under any sequence of cameras
NextLL == UpdateLineLabels /\ UNCHANGED civars

SpecLL == InitLL /\ [][NextLL]_vars

\* one rotation of the camera past the vertical axis, frame by frame
NextRotate ==
    \/ StartRotation /\ UNCHANGED civars
    \/ Rotate /\ UNCHANGED civars

SpecRotate == InitRotate /\ [][NextRotate]_vars

\* hideGlyphs on its own: the arrays it is given are those a frame leaves
MaxNum == 3
MaxCalls == 2

InitHide ==
    /\ NoCollisionIndex
    /\ bucket \in Buckets
    /\ \E cam \in Cameras :
        dynamicLayout = updateLineLabels(bucket, <<>>, cam, TRUE).array
    /\ frame = [op |-> "none", calls |-> 0]
    /\ rotation = NoRotation

HideGlyphs ==
    /\ frame.calls < MaxCalls
    /\ \E num \in 0..MaxNum :
        /\ dynamicLayout' = hideGlyphs(num, dynamicLayout)
        /\ frame' = [op |-> "hideGlyphs", num |-> num, before |-> dynamicLayout,
                     calls |-> frame.calls + 1]
    /\ UNCHANGED <<bucket, rotation>>

NextHide == HideGlyphs /\ UNCHANGED civars

SpecHide == InitHide /\ [][NextHide]_vars

\* placeGlyphAlongLine on its own, next to the frames that call it.
\* The line of the calls: six vertices, the two at y = 45 behind the pitched
\* camera; the segment from (50, 25) to (50, 45) projects onto x = 50.
GlyphLine == << P(10, 25), P(30, 25), P(50, 25), P(50, 45), P(80, 45), P(80, 25) >>

\* the anchors: a tile point and the segment of the line it lies on
GlyphAnchors == { [point |-> P(20, 25), segment |-> 0], [point |-> P(40, 25), segment |-> 1],
                  [point |-> P(50, 26), segment |-> 2], [point |-> P(50, 30), segment |-> 2] }

GlyphOffsetXs == { -45 * ONE, -30 * ONE, -15 * ONE, -5 * ONE, 0, 5 * ONE, 15 * ONE, 35 * ONE, 65 * ONE }

GlyphLabelPlanes == { IdentityMatrix, RotatedLabelPlaneMatrix(3, 4, 5), PitchedLabelPlaneMatrix }

\* the calls: the anchor is in front of the camera, as line 258 has seen to
GlyphCalls ==
    { c \in [offsetX : GlyphOffsetXs, lineOffsetX : {0, 10 * ONE}, flip : BOOLEAN,
             anchor : GlyphAnchors, lineStartIndex : {0, 1}, labelPlaneMatrix : GlyphLabelPlanes] :
        /\ c.anchor.segment >= c.lineStartIndex
        /\ project(c.anchor.point, c.labelPlaneMatrix, 0).signedDistanceFromCamera > 0 }

lineEndOf(c) == IF c.lineStartIndex = 0 THEN Len(GlyphLine) ELSE Len(GlyphLine) - 1

PlaceGlyphAlongLine ==
    /\ frame.op = "none"
    /\ last.op = "constructor"
    /\ \E c \in GlyphCalls :
        last' = [op |-> "placeGlyphAlongLine", args |-> c,
                 result |-> placeGlyphAlongLine(c.offsetX, c.lineOffsetX, 0, c.flip,
                                project(c.anchor.point, c.labelPlaneMatrix, 0).point,
                                c.anchor.point, c.anchor.segment - c.lineStartIndex,
                                c.lineStartIndex, lineEndOf(c), GlyphLine,
                                c.labelPlaneMatrix, <<>>, FALSE)]
    /\ UNCHANGED <<transform, grid, ignoredGrid>>

NextGlyph ==
    \/ PlaceGlyphAlongLine /\ UNCHANGED llvars
    \/ last.op = "constructor" /\ UpdateLineLabels /\ UNCHANGED civars

SpecGlyph == InitLL /\ [][NextGlyph]_vars

----------------------------------------------------------------------------
(* The collision index: properties *)

placedRect == boxGeometry(transform, last.args)

\* the projected rectangle of the candidate meets entry e of a grid (a box, or
\* the disc of a circle) and the group predicate of the call does not exclude e
conflictsWith(e) ==
    /\ predicateAccepts(last.args.collisionGroupPredicate, e.key)
    /\ IF e.kind = "box"
       THEN rectsMeet(placedRect.tlX, placedRect.tlY, placedRect.brX, placedRect.brY,
                      e.x1, e.y1, e.x2, e.y2)
       ELSE circleAndRectCollide(e.x, e.y, e.radius, placedRect.tlX, placedRect.tlY,
                                 placedRect.brX, placedRect.brY)

\* the circles of the label of the call, as an empty index returns them
labelCircles == placedCircles(transform, <<>>, last.args).circles

\* circle k of the label meets entry e of a grid and the group predicate of the
\* call does not exclude e
circleConflictsWith(k, e) ==
    /\ predicateAccepts(last.args.collisionGroupPredicate, e.key)
    /\ IF e.kind = "box"
       THEN circleAndRectCollide(labelCircles[k], labelCircles[k + 1], labelCircles[k + 2],
                                 e.x1, e.y1, e.x2, e.y2)
       ELSE circlesCollide(labelCircles[k], labelCircles[k + 1], labelCircles[k + 2],
                           e.x, e.y, e.radius)

\* some circle of the label conflicts with entry e
labelConflictsWith(e) ==
    \E k \in DOMAIN labelCircles : k % 4 = 1 /\ circleConflictsWith(k, e)

placeOps == {"placeCollisionBox", "placeCollisionCircles"}

entriesKept(g, h) == Len(g) <= Len(h) /\ \A i \in DOMAIN g : h[i] = g[i]

C1_Rejects ==
    (/\ last.op = "placeCollisionBox"
     /\ ~last.args.allowOverlap
     /\ \E i \in DOMAIN grid : conflictsWith(grid[i]))
    => last.result.box = <<>>

C1_NoDisplacement == entriesKept(grid, grid') /\ entriesKept(ignoredGrid, ignoredGrid')

\* C1: a candidate placed with allowOverlap = false whose projected rectangle
\* meets an entry already in the active grid, not excluded by the group
\* predicate, is rejected with an empty box, whichever of the two was submitted
\* first; and no step removes or changes an entry already inserted.
C1_FirstComeFirstServed == [] C1_Rejects /\ [][C1_NoDisplacement]_vars

\* the second candidate of the flat camera was inserted first and the first
\* candidate, submitted after it, is rejected because of it alone
C1_Witness ==
    /\ last.op = "placeCollisionBox"
    /\ ~last.args.allowOverlap
    /\ last.args.key = Key(1, 0, 0)
    /\ Len(grid) = 1 /\ grid[1].key = Key(1, 0, 1)
    /\ conflictsWith(grid[1])
    /\ ~isClipped(placedRect.projectedPoint)
    /\ isInsideGrid(transform, placedRect.tlX, placedRect.tlY, placedRect.brX, placedRect.brY)
    /\ last.result.box = <<>>

C2_SameResult ==
    (last.op \in placeOps /\ last.again) => last.result = last.first

C2_GridsUntouched ==
    last'.op \in placeOps => (grid' = grid /\ ignoredGrid' = ignoredGrid)

\* C2: a placeCollisionBox or placeCollisionCircles call leaves the active and
\* the ignored grid as they were, and a call that repeats the previous call's
\* arguments with no insert in between returns the same result: same box
\* coordinates (or circles), same flags.
C2_PlaceIsPureQuery == [] C2_SameResult /\ [][C2_GridsUntouched]_vars

\* an accepted box asked for a second time, overlap disallowed
C2_Witness ==
    /\ last.op = "placeCollisionBox"
    /\ last.again
    /\ ~last.args.allowOverlap
    /\ last.result.box # <<>>

C3_notFullyOutside ==
    /\ placedRect.projectedPoint.point.finite
    /\ ~ (\/ placedRect.brX < 0
          \/ placedRect.tlX > (transform.width + 2 * viewportPadding) * ONE
          \/ placedRect.brY < 0
          \/ placedRect.tlY > (transform.height + 2 * viewportPadding) * ONE)

meetsQuery(e, q) == Len(q) > 0 /\ polygonIntersectsPolygon(gridQuery(q), featureBBox(e))

\* the result of a query lists feature f under bucket b
listed(result, b, f) == b \in DOMAIN result /\ \E k \in DOMAIN result[b] : result[b][k] = f

C4_OnlyIgnoredGrid ==
    (last'.op \in {"insertCollisionBox", "insertCollisionCircles"} /\ last'.ignorePlacement)
    => /\ grid' = grid
       /\ Len(ignoredGrid') = Len(ignoredGrid) + (IF last'.op = "insertCollisionBox" THEN 1
                                                  ELSE Len(last'.collisionCircles) \div 4)
       /\ entriesKept(ignoredGrid, ignoredGrid')
       /\ \A i \in DOMAIN ignoredGrid' : i > Len(ignoredGrid) => ignoredGrid'[i].key = last'.key

C4_CirclesNeverCollide ==
    (last.op = "placeCollisionCircles" /\ last.result.collisionDetected)
    => \E i \in DOMAIN grid : labelConflictsWith(grid[i])

C4_NeverRejects ==
    (/\ last.op = "placeCollisionBox"
     /\ C3_notFullyOutside
     /\ ~isClipped(placedRect.projectedPoint)
     /\ ~ \E i \in DOMAIN grid : conflictsWith(grid[i]))
    => last.result.box # <<>>

C4_StillQueryable ==
    last.op = "queryRenderedSymbols" =>
        \A i \in DOMAIN ignoredGrid :
            meetsQuery(ignoredGrid[i], last.viewportQueryGeometry)
            => listed(last.result, ignoredGrid[i].key.bucketInstanceId,
                      ignoredGrid[i].key.featureIndex)

\* C4: an insert with ignorePlacement = true adds its entries to the ignored
\* grid and leaves the active grid alone; a box that is inside the grid, not
\* clipped and free of conflicts in the active grid is accepted, and a line
\* label reports a collision only when one of its circles conflicts with an
\* entry of the active grid, whatever the ignored grid holds; and every entry
\* of the ignored grid whose box meets the query polygon is listed by
\* queryRenderedSymbols.
C4_IgnoredPlacement ==
    [] (C4_NeverRejects /\ C4_CirclesNeverCollide /\ C4_StillQueryable)
        /\ [][C4_OnlyIgnoredGrid]_vars

\* a candidate is accepted, overlap disallowed, on top of an entry of the
\* ignored grid that its group predicate admits
C4_Witness ==
    /\ last.op = "placeCollisionBox"
    /\ ~last.args.allowOverlap
    /\ \E i \in DOMAIN ignoredGrid : conflictsWith(ignoredGrid[i])
    /\ last.result.box # <<>>

\* C5: queryRenderedSymbols lists featureIndex f under bucketInstanceId b
\* exactly when some entry inserted under (b, f), in the active or the ignored
\* grid, has a bounding box that intersects the query polygon shifted by the
\* viewport padding; with an empty polygon or two empty grids nothing is listed.
C5_QueryIff ==
    last.op = "queryRenderedSymbols" =>
        \A b \in 1..2, f \in 0..1 :
            listed(last.result, b, f)
            <=> \E i \in DOMAIN allEntries :
                    /\ allEntries[i].key.bucketInstanceId = b
                    /\ allEntries[i].key.featureIndex = f
                    /\ meetsQuery(allEntries[i], last.viewportQueryGeometry)

\* a feature is listed although the box of it that the query examined first
\* does not meet the polygon: a later one does
C5_Witness ==
    /\ last.op = "queryRenderedSymbols"
    /\ \E i, j \in DOMAIN allEntries :
        /\ i < j
        /\ allEntries[i].key.bucketInstanceId = allEntries[j].key.bucketInstanceId
        /\ allEntries[i].key.featureIndex = allEntries[j].key.featureIndex
        /\ ~meetsQuery(allEntries[i], last.viewportQueryGeometry)
        /\ meetsQuery(allEntries[j], last.viewportQueryGeometry)
        /\ listed(last.result, allEntries[j].key.bucketInstanceId,
                  allEntries[j].key.featureIndex)

\* C6: no featureIndex occurs twice in the list of any bucketInstanceId of a
\* queryRenderedSymbols result.
C6_NoDuplicateFeature ==
    last.op = "queryRenderedSymbols" =>
        \A b \in DOMAIN last.result :
            \A i, j \in DOMAIN last.result[b] :
                last.result[b][i] = last.result[b][j] => i = j

\* a box and a circle of one feature, one in each grid, both meet the polygon
C6_Witness ==
    /\ last.op = "queryRenderedSymbols"
    /\ \E i \in DOMAIN grid, j \in DOMAIN ignoredGrid :
        /\ grid[i].kind # ignoredGrid[j].kind
        /\ grid[i].key.bucketInstanceId = ignoredGrid[j].key.bucketInstanceId
        /\ grid[i].key.featureIndex = ignoredGrid[j].key.featureIndex
        /\ meetsQuery(grid[i], last.viewportQueryGeometry)
        /\ meetsQuery(ignoredGrid[j], last.viewportQueryGeometry)
        /\ Len(last.result[grid[i].key.bucketInstanceId]) = 1

----------------------------------------------------------------------------
(* Line labels: properties *)

known(flipState) == flipState # FlipState.unknown

keptUpright == frame.op = "updateLineLabels" /\ frame.keepUpright

\* the writing mode of symbol s of the bucket
modeOf(s) == bucket.placedSymbols[s].writingMode

\* symbol s was decided inside the retain range by this call and by the call
\* before it, both with keepUpright
stayedInRetain(s) == frame.trace[s].inRetain /\ frame.inRetainBefore[s]

\* C7, as claimed: with keepUpright, a symbol of any writing mode that is inside
\* the retain range on this frame and was on the frame before keeps the
\* flipState it had, once that state is known.
C7_RetainedEveryMode ==
    keptUpright =>
        \A s \in DOMAIN frame.trace :
            (stayedInRetain(s) /\ known(frame.trace[s].before))
            => frame.trace[s].after = frame.trace[s].before

\* C7, amended: with keepUpright, a symbol whose writing mode is not vertical
\* keeps its known flipState over consecutive frames inside the retain range;
\* a symbol of the general writing mode (horizontalOnly) keeps it on any frame
\* inside the retain range, whatever the frame before was.
C7_RetainedUnlessVertical ==
    keptUpright =>
        \A s \in DOMAIN frame.trace :
            (/\ modeOf(s) # WritingMode.vertical
             /\ frame.trace[s].inRetain
             /\ known(frame.trace[s].before)
             /\ (frame.inRetainBefore[s] \/ modeOf(s) = WritingMode.horizontalOnly))
            => frame.trace[s].after = frame.trace[s].before

\* the single-glyph label, known as not flipped, is met 2.3 degrees past the
\* vertical axis, reading right to left, and stays unflipped
C7_Witness ==
    /\ keptUpright
    /\ bucket.name = "single"
    /\ frame.camera = <<"bearing", 5, 1>>
    /\ frame.trace[1].inRetain
    /\ frame.trace[1].before = FlipState.flipNotRequired
    /\ frame.trace[1].after = FlipState.flipNotRequired
    /\ frame.trace[1].outcome = "placed"

\* the label of the rotation is of the general writing mode
generalLabel == modeOf(watched) = WritingMode.horizontalOnly

\* the rotation has taken the projected line past the vertical axis
crossedVertical == rotation.started /\ rotation.bearing > 4

writes(t) == t.writesUnflipped + t.writesFlipped

C9_OncePerCall(t) ==
    /\ writes(t) <= 1
    /\ t.writesFlipped = 0
    /\ writes(t) > 0 => frame.keepUpright
    /\ ~frame.keepUpright => t.after = t.before
    /\ t.outcome \in {"skipped", "invisible", "behindCamera"} => t.after = t.before

withFlipStates(fs) ==
    [FreshBucket(bucket.name) EXCEPT
        !.placedSymbols = [s \in DOMAIN @ |-> [@[s] EXCEPT !.flipState = fs[s]]]]

\* the glyph output of the frame's call on bucket b with an empty layout array
outputOn(b) == updateLineLabels(b, <<>>, CameraOf(frame), frame.keepUpright).array

\* C10, as claimed: the glyph output of a call is the output the same camera,
\* matrices and geometry give on the bucket fresh from layout, whatever the
\* earlier frames were.
C10_CurrentFrameOnly ==
    frame.op = "updateLineLabels" => dynamicLayout = outputOn(FreshBucket(bucket.name))

\* C10, amended: the glyph output of a call is a function of the current
\* frame's inputs and of the flip states the symbols carried into the call; it
\* is the output on the fresh bucket whenever no symbol was decided inside the
\* retain range with a known flip state (so also when keepUpright is false).
C10_CurrentFrameAndFlipState ==
    frame.op = "updateLineLabels" =>
        /\ dynamicLayout = outputOn(withFlipStates([s \in DOMAIN frame.trace |->
                                                        frame.trace[s].before]))
        /\ (\A s \in DOMAIN frame.trace :
                ~(frame.trace[s].inRetain /\ known(frame.trace[s].before)))
           => dynamicLayout = outputOn(FreshBucket(bucket.name))

\* a label known as not flipped from an earlier frame is flipped at 180 degrees
C10_Witness ==
    /\ keptUpright
    /\ bucket.name = "single"
    /\ frame.camera = <<"bearing", 8, 1>>
    /\ frame.trace[1].before = FlipState.flipNotRequired
    /\ ~frame.trace[1].inRetain
    /\ frame.trace[1].outcome = "flipped"

\* the call of the frame, made again on the bucket as layout left it but for the
\* flip states the symbols carried into the call, and on an empty array
referenceRun ==
    updateLineLabels(withFlipStates([s \in DOMAIN frame.trace |-> frame.trace[s].before]),
                     <<>>, CameraOf(frame), frame.keepUpright)

\* C11: flipState is the only state a frame hands to the next: whatever frames
\* came before, a call leaves the output buffer and the flip states that the
\* same inputs and the same incoming flip states give on a bucket fresh from
\* layout and an empty array, and it changes nothing else in the bucket.
C11_OnlyFlipStateCarried ==
    frame.op = "updateLineLabels" =>
        /\ dynamicLayout = referenceRun.array
        /\ flipStates(bucket.placedSymbols) = flipStates(referenceRun.placedSymbols)
        /\ bucket = withFlipStates(flipStates(bucket.placedSymbols))

\* the single-glyph label, left flipped by an earlier frame, is placed unflipped
\* at bearing 0 over the vertices the earlier frame wrote
C11_Witness ==
    /\ keptUpright
    /\ bucket.name = "single"
    /\ frame.camera = <<"bearing", 0, 1>>
    /\ frame.trace[1].before = FlipState.flipRequired
    /\ frame.trace[1].after = FlipState.flipNotRequired
    /\ frame.trace[1].outcome = "placed"
    /\ dynamicLayout # <<>>

\* the hidden sentinel: (-Infinity, -Infinity, 0)
sentinel == [x |-> NegInfinity, y |-> NegInfinity, angle |-> 0]

\* C12: hideGlyphs(num, array) leaves the array 4 * num vertices longer, every
\* vertex it had unchanged and every new one (-Infinity, -Infinity, 0).
C12_HideGlyphsAppends ==
    frame.op = "hideGlyphs" =>
        /\ Len(dynamicLayout) = Len(frame.before) + 4 * frame.num
        /\ \A i \in 1..Len(frame.before) : dynamicLayout[i] = frame.before[i]
        /\ \A i \in (Len(frame.before) + 1)..Len(dynamicLayout) : dynamicLayout[i] = sentinel

\* three glyphs are hidden behind the vertices of placed glyphs
C12_Witness ==
    /\ frame.op = "hideGlyphs"
    /\ frame.num = 3
    /\ \E i \in 1..Len(frame.before) : frame.before[i] # sentinel
    /\ Len(dynamicLayout) = Len(frame.before) + 12

RECURSIVE glyphsBefore(_, _)
\* the number of glyphs of the symbols before symbol s (from 1) of the array
glyphsBefore(placedSymbols, s) ==
    IF s <= 1 THEN 0
    ELSE glyphsBefore(placedSymbols, s - 1) + placedSymbols[s - 1].numGlyphs

\* the vertices of symbol s in the dynamic layout array, the buffer being
\* aligned with the static one
verticesOf(s) ==
    SubSeq(dynamicLayout, 4 * glyphsBefore(bucket.placedSymbols, s) + 1,
           4 * glyphsBefore(bucket.placedSymbols, s + 1))

isPlaced(outcome) == outcome \in {"placed", "flipped"}

\* C13: after updateLineLabels the dynamic layout array holds 4 * numGlyphs
\* vertices for every symbol, in symbol order: placed vertices and no sentinel
\* for a symbol placed unflipped or flipped, only sentinels for every other
\* outcome.
C13_BufferAligned ==
    frame.op = "updateLineLabels" =>
        /\ Len(frame.trace) = Len(bucket.placedSymbols)
        /\ Len(dynamicLayout) = 4 * glyphsBefore(bucket.placedSymbols, Len(bucket.placedSymbols) + 1)
        /\ \A s \in DOMAIN bucket.placedSymbols :
            /\ bucket.placedSymbols[s].numGlyphs > 0
            /\ \A i \in DOMAIN verticesOf(s) :
                (verticesOf(s)[i] = sentinel) <=> ~isPlaced(frame.trace[s].outcome)

\* one call hides a hidden symbol, an invisible one and one without room, and
\* places the three glyphs of the last symbol behind their 48 sentinels
C13_Witness ==
    /\ frame.op = "updateLineLabels"
    /\ bucket.name = "gates"
    /\ frame.trace[1].outcome = "skipped"
    /\ frame.trace[2].outcome = "invisible"
    /\ frame.trace[4].outcome = "notEnoughRoom"
    /\ isPlaced(frame.trace[5].outcome)
    /\ Len(dynamicLayout) = 60
    /\ dynamicLayout[48] = sentinel
    /\ dynamicLayout[49] # sentinel

\* the anchor of symbol s in clip space under the camera of the frame
anchorClip(s) ==
    transformMat4(bucket.placedSymbols[s].tileAnchorX, bucket.placedSymbols[s].tileAnchorY, 0,
                  CameraOf(frame).posMatrix)

\* |x / w| > 256 / width * 2 + 1 or |y / w| > 256 / height * 2 + 1, for w # 0
outsidePaddedViewport(pos, painter) ==
    /\ pos[4] # 0
    /\ \/ Abs(pos[1]) * painter.width > (512 + painter.width) * Abs(pos[4])
       \/ Abs(pos[2]) * painter.height > (512 + painter.height) * Abs(pos[4])

behindCamera(pos) == pos[4] <= 0

\* nothing was computed for symbol s: no placement, no flipState written, and
\* all its vertices are the sentinel
hiddenUntouched(s) ==
    /\ frame.trace[s].outcome \in {"skipped", "invisible", "behindCamera"}
    /\ writes(frame.trace[s]) = 0
    /\ frame.trace[s].after = frame.trace[s].before
    /\ \A i \in DOMAIN verticesOf(s) : verticesOf(s)[i] = sentinel

\* C14: a symbol whose anchor is outside the padded viewport or behind the
\* camera (clip-space w <= 0) gets the sentinel for all its glyphs, with no
\* placement and no flipState update, with pitchWithMap and without.
C14_OffscreenHidden ==
    frame.op = "updateLineLabels" =>
        \A s \in DOMAIN frame.trace :
            (\/ outsidePaddedViewport(anchorClip(s), CameraOf(frame).painter)
             \/ behindCamera(anchorClip(s)))
            => hiddenUntouched(s)

\* with pitchWithMap a symbol whose anchor is behind the pitched camera, inside
\* the padded viewport once divided by its negative w, is taken through placement
C14_Witness ==
    /\ frame.op = "updateLineLabels"
    /\ frame.pitchWithMap
    /\ \E s \in DOMAIN frame.trace :
        /\ behindCamera(anchorClip(s))
        /\ ~bucket.placedSymbols[s].hidden
        /\ frame.trace[s].outcome \notin {"skipped", "invisible", "behindCamera"}

----------------------------------------------------------------------------
(* placeGlyphAlongLine: properties *)

probed == last.op = "placeGlyphAlongLine"

\* the combined offset of the probed call and the direction it walks in
combinedOffsetX == IF last.args.flip THEN last.args.offsetX - last.args.lineOffsetX
                   ELSE last.args.offsetX + last.args.lineOffsetX

walkDir == IF (combinedOffsetX > 0) # last.args.flip THEN 1 ELSE -1

\* longer than any offset: the length of a line that runs behind the camera,
\* where a substitute vertex is made as far out as the glyph needs
Unbounded == 1000000 * ONE

RECURSIVE lengthFrom(_, _)
\* the projected length of the line from the projected point prev over the
\* vertices index, index + walkDir, ... to the end of the line range
lengthFrom(prev, index) ==
    IF index < last.args.lineStartIndex \/ index >= lineEndOf(last.args)
    THEN 0
    ELSE IF project(GlyphLine[index + 1], last.args.labelPlaneMatrix, 0).signedDistanceFromCamera <= 0
    THEN Unbounded
    ELSE PtDist(prev, project(GlyphLine[index + 1], last.args.labelPlaneMatrix, 0).point)
         + lengthFrom(project(GlyphLine[index + 1], last.args.labelPlaneMatrix, 0).point,
                      index + walkDir)

\* the projected length available from the anchor in the walk direction
availableLength ==
    lengthFrom(project(last.args.anchor.point, last.args.labelPlaneMatrix, 0).point,
               IF walkDir > 0 THEN last.args.anchor.segment + 1 ELSE last.args.anchor.segment)

noRoom(outcome) == outcome \in {"notEnoughRoom", "flippedNotEnoughRoom"}

\* a label without room is hidden whole, and the call raises nothing
C15_NoRoomHidden ==
    frame.op = "updateLineLabels" =>
        /\ ~frame.threw
        /\ \A s \in DOMAIN frame.trace :
            noRoom(frame.trace[s].outcome)
            => /\ Len(verticesOf(s)) = 4 * bucket.placedSymbols[s].numGlyphs
               /\ \A i \in DOMAIN verticesOf(s) : verticesOf(s)[i] = sentinel

RECURSIVE firstBehind(_)
\* the first index from index on, in the walk direction, whose vertex is behind
\* the camera; -1 when the line range ends before one is met
firstBehind(index) ==
    IF index < last.args.lineStartIndex \/ index >= lineEndOf(last.args)
    THEN -1
    ELSE IF project(GlyphLine[index + 1], last.args.labelPlaneMatrix, 0).signedDistanceFromCamera <= 0
    THEN index
    ELSE firstBehind(index + walkDir)

firstIndex == IF walkDir > 0 THEN last.args.anchor.segment + 1 ELSE last.args.anchor.segment

\* the tile point the truncated segment starts at: the vertex before the one
\* behind the camera, or the anchor when that vertex ends the anchor's segment
truncatedFrom ==
    IF firstBehind(firstIndex) = firstIndex THEN last.args.anchor.point
    ELSE GlyphLine[firstBehind(firstIndex) - walkDir + 1]

\* the direction of the truncated segment in the label plane, from the
\* projection of one unit of it
truncatedDirection ==
    PtSub(project(truncatedFrom, last.args.labelPlaneMatrix, 0).point,
          project(PtAdd(truncatedFrom,
                        PtUnit(PtSub(truncatedFrom, GlyphLine[firstBehind(firstIndex) + 1]))),
                  last.args.labelPlaneMatrix, 0).point)

cross(a, b) == a.x * b.y - a.y * b.x

\* the glyph lies on the projected segment, to within a pixel
glyphOnTruncatedSegment ==
    Abs(cross(PtSub(last.result.point, project(truncatedFrom, last.args.labelPlaneMatrix, 0).point),
              truncatedDirection))
    <= ONE * PtMag(truncatedDirection)

\* C16: a vertex behind the camera never makes placeGlyphAlongLine return
\* null: null is returned only when the walk leaves the line range without
\* meeting one; the glyph of a walk that met one is placed on the segment that
\* runs behind the camera.
C16_TruncatedOnSegment ==
    probed =>
        /\ ~last.result.placed => firstBehind(firstIndex) = -1
        /\ last.result.truncated => (last.result.placed /\ glyphOnTruncatedSegment)

\* the walk turns the corner at (50, 25) into the segment that runs behind the
\* pitched camera, and the glyph is placed
C16_Witness ==
    /\ probed
    /\ last.args.labelPlaneMatrix = PitchedLabelPlaneMatrix
    /\ last.args.anchor.segment = 1
    /\ walkDir > 0
    /\ firstBehind(firstIndex) = 3
    /\ last.result.truncated
    /\ last.result.placed

----------------------------------------------------------------------------
(* Perspective ratio: properties *)

\* camera-to-center distances and signed distances from the camera
RatioDistances == { 1, 7, 50 * ONE, 64 * ONE, 1500 * ONE }
RatioSigned == RatioDistances \cup { -50 * ONE, -1, 2, 13 * ONE, 25 * ONE, 182 * ONE, 200 * ONE, 5460 * ONE }

\* r is min(0.5 + 0.5 * d / s, 1.5) in thousandths, rounded down, for s > 0
isClampedRatio(r, d, s) ==
    \/ r = 1500 /\ 500 * d >= 1000 * s
    \/ r < 1500 /\ (r - 500) * s <= 500 * d /\ 500 * d < (r - 499) * s

\* C17: getPerspectiveRatio(d, s) is min(0.5 + 0.5 * d / s, 1.5): 1 when
\* s = d > 0, never above 1.5 for any s; and the ratio that
\* projectAndGetPerspectiveRatio computes for an anchor is getPerspectiveRatio
\* of the camera-to-center distance and the anchor's clip-space w.
C17_PerspectiveRatio ==
    /\ \A d \in RatioDistances :
        /\ getPerspectiveRatio(d, d) = 1000
        /\ \A s \in RatioSigned \cup {0} : getPerspectiveRatio(d, s) <= 1500
        /\ \A s \in RatioSigned : s > 0 => isClampedRatio(getPerspectiveRatio(d, s), d, s)
    /\ last.op = "placeCollisionBox" =>
        placedRect.projectedPoint.perspectiveRatio
        = getPerspectiveRatio(transform.cameraToCenterDistance,
                              placedRect.projectedPoint.signedDistanceFromCamera)

\* a box is placed whose anchor is nearer than a third of the camera-to-center
\* distance: its ratio is held at 1.5
C17_Witness ==
    /\ last.op = "placeCollisionBox"
    /\ placedRect.projectedPoint.signedDistanceFromCamera > 0
    /\ 3 * placedRect.projectedPoint.signedDistanceFromCamera < transform.cameraToCenterDistance
    /\ placedRect.projectedPoint.perspectiveRatio = 1500

\* the anchor of the placed box is at least num / den camera-to-center
\* distances away
anchorAtLeast(num, den) ==
    den * placedRect.projectedPoint.signedDistanceFromCamera
    >= num * transform.cameraToCenterDistance

\* from num / den camera-to-center distances on the ratio is at most 0.55 and
\* the box is rejected
clippedFrom(num, den) ==
    /\ \A d \in RatioDistances, s \in RatioSigned :
        den * s >= num * d => getPerspectiveRatio(d, s) <= minPerspectiveRatio
    /\ (last.op = "placeCollisionBox" /\ anchorAtLeast(num, den)) => last.result.box = <<>>

\* C18, as claimed: getPerspectiveRatio(d, s) <= 0.55 for every s >= 3.64 d,
\* and a box whose anchor is that far away is rejected.
C18_ClippedFrom364 == clippedFrom(364, 100)

\* C18, amended: getPerspectiveRatio(d, s) <= 0.55 for every s >= 10 d, and a
\* box whose anchor is at least 10 camera-to-center distances away is rejected.
C18_ClippedFromTen == clippedFrom(10, 1)

\* a box anchored 10 camera-to-center distances away is rejected although it
\* may overlap and lies inside the grid
C18_Witness ==
    /\ last.op = "placeCollisionBox"
    /\ last.args.allowOverlap
    /\ anchorAtLeast(10, 1)
    /\ C3_notFullyOutside
    /\ ~placedRect.projectedPoint.occluded
    /\ last.result.box = <<>>

\* the anchor of the line label of the last placeCollisionCircles call, on the
\* viewport
screenAnchorPoint ==
    projectAndGetPerspectiveRatio(transform, last.args.posMatrix, circleAnchor(last.args.symbol),
                                  last.args.tileID, checkOcclusionFor(transform, 0),
                                  last.args.fogOpacity)

\* C19, as claimed: placeCollisionCircles returns an empty circle list whenever
\* the perspective ratio of the anchor is at most 0.55, also with allowOverlap.
C19_CirclesClippedByRatio ==
    (last.op = "placeCollisionCircles"
     /\ screenAnchorPoint.perspectiveRatio <= minPerspectiveRatio)
    => last.result.circles = <<>>

\* C19, amended: placeCollisionCircles returns an empty circle list whenever
\* the anchor is not in front of the camera or is occluded, also with
\* allowOverlap; the perspective ratio of the anchor does not enter.
C19_CirclesClippedBehindOrOccluded ==
    (last.op = "placeCollisionCircles"
     /\ (screenAnchorPoint.signedDistanceFromCamera <= 0 \/ screenAnchorPoint.occluded))
    => last.result.circles = <<>>

\* a label allowed to overlap and anchored behind the camera gets no circle
C19_Witness ==
    /\ last.op = "placeCollisionCircles"
    /\ last.args.allowOverlap
    /\ screenAnchorPoint.signedDistanceFromCamera <= 0
    /\ last.result.circles = <<>>

\* the last call has projected the anchor of a box or of a line label
projectsAnchor == last.op \in {"placeCollisionBox", "placeCollisionCircles"}

\* the arguments projectAndGetPerspectiveRatio got in the last call: the
\* anchor, the tile id and whether the far plane is tested
anchorPoint ==
    IF last.op = "placeCollisionBox" THEN elevatedBoxAnchor(last.args.collisionBox)
    ELSE circleAnchor(last.args.symbol)
anchorTileID ==
    IF last.op = "placeCollisionBox" THEN last.args.collisionBox.tileID ELSE last.args.tileID
anchorCheckOcclusion ==
    IF last.op = "placeCollisionBox"
    THEN checkOcclusionFor(transform, last.args.collisionBox.elevation)
    ELSE checkOcclusionFor(transform, 0)

\* what it returned
anchorProjected ==
    projectAndGetPerspectiveRatio(transform, last.args.posMatrix, anchorPoint, anchorTileID,
                                  anchorCheckOcclusion, last.args.fogOpacity)

\* the anchor in clip space
anchorClipSpace == transformMat4(anchorPoint[1], anchorPoint[2], anchorPoint[3], last.args.posMatrix)

beyondFarPlane == anchorCheckOcclusion /\ anchorClipSpace[3] > anchorClipSpace[4]

\* a fog state and a tile id are present and the fog opacity at the anchor
\* exceeds the threshold
inFog ==
    transform.fog /\ anchorTileID /\ last.args.fogOpacity > FOG_SYMBOL_CLIPPING_THRESHOLD

\* the call returns without a box or circle and without a collision, so that
\* its occluded flag is the one of the projected anchor
reportsAnchorFlag ==
    \/ last.op = "placeCollisionBox" /\ last.result.box = <<>>
    \/ last.op = "placeCollisionCircles" /\ ~last.result.collisionDetected

\* C20, as claimed: occluded = (checkOcclusion and clipZ > clipW) or the fog
\* opacity at the point exceeds the threshold, whatever the pitch and the z.
C20_OccludedFarOrFog ==
    projectsAnchor => (anchorProjected.occluded <=> (beyondFarPlane \/ inFog))

\* the z of the point is not 0 or the pitch is above 0: the branch of line 393
\* that projects with the whole matrix
projectedIn3D == anchorPoint[3] # 0 \/ transform.pitch > 0

\* C20, amended: when the z of the point is not 0 or the pitch is above 0,
\* occluded = (checkOcclusion and clipZ > clipW) or the fog opacity at the
\* point exceeds the threshold; otherwise occluded = (checkOcclusion and
\* 0 > clipW), whatever the fog.  The callers report that flag.
C20_OccludedFarOrFogWhenProjectedIn3D ==
    projectsAnchor =>
        /\ projectedIn3D => (anchorProjected.occluded <=> (beyondFarPlane \/ inFog))
        /\ ~projectedIn3D
              => (anchorProjected.occluded <=> (anchorCheckOcclusion /\ 0 > anchorClipSpace[4]))
        /\ reportsAnchorFlag => (last.result.occluded <=> anchorProjected.occluded)

\* a box in thick fog is reported occluded and rejected
C20_Witness ==
    /\ last.op = "placeCollisionBox"
    /\ inFog
    /\ ~beyondFarPlane
    /\ last.result.occluded
    /\ last.result.box = <<>>

\* some circle of the label of the call hits the active grid
someCircleHits == \E i \in DOMAIN grid : labelConflictsWith(grid[i])

\* C21: without allowOverlap a hit on the active grid gives collisionDetected;
\* without showCollisionCircles the call returns at the first hit with no
\* circle, with it the call returns every circle of the label; with
\* allowOverlap collisionDetected is false.
C21_CircleHits ==
    last.op = "placeCollisionCircles" =>
        /\ (~last.args.allowOverlap /\ someCircleHits /\ ~last.args.showCollisionCircles)
              => /\ last.result.circles = <<>>
                 /\ last.result.collisionDetected
                 /\ ~last.result.offscreen
                 /\ ~last.result.occluded
        /\ (~last.args.allowOverlap /\ someCircleHits /\ last.args.showCollisionCircles)
              => /\ last.result.collisionDetected
                 /\ last.result.circles = labelCircles
                 /\ labelCircles # <<>>
        /\ last.args.allowOverlap => ~last.result.collisionDetected
        /\ last.result.collisionDetected => someCircleHits

\* with showCollisionCircles a label whose first circle is free and whose
\* later circle hits the grid gets all its circles back
C21_Witness ==
    /\ last.op = "placeCollisionCircles"
    /\ ~last.args.allowOverlap
    /\ last.args.showCollisionCircles
    /\ Len(labelCircles) >= 8
    /\ \A i \in DOMAIN grid : ~circleConflictsWith(1, grid[i])
    /\ someCircleHits
    /\ last.result.collisionDetected
    /\ last.result.circles = labelCircles

\* symbol s (from 1) follows a horizontal symbol that returned useVertical in
\* this frame
afterUseVertical(s) ==
    /\ s > 1
    /\ bucket.placedSymbols[s - 1].writingMode = WritingMode.horizontal
    /\ frame.trace[s - 1].outcome = "useVertical"

\* symbol s is a vertical symbol without a horizontal counterpart before it
verticalOnly(s) ==
    /\ bucket.placedSymbols[s].writingMode = WritingMode.vertical
    /\ (s = 1 \/ bucket.placedSymbols[s - 1].writingMode # WritingMode.horizontal)

\* C22: a vertical symbol is hidden at the gate, with nothing computed, unless
\* the symbol right before it is a horizontal one that returned useVertical in
\* this frame or it is a vertical-only symbol; in these two cases it passes the
\* gate.  Symbols further back do not matter.
C22_VerticalGate ==
    frame.op = "updateLineLabels" =>
        \A s \in DOMAIN frame.trace :
            bucket.placedSymbols[s].writingMode = WritingMode.vertical =>
                IF afterUseVertical(s) \/ verticalOnly(s)
                THEN frame.trace[s].outcome # "skipped"
                ELSE frame.trace[s].outcome = "skipped" /\ hiddenUntouched(s)

\* the first pair of the array went vertical, the second vertical symbol,
\* whose horizontal counterpart was skipped, is hidden at the gate
C22_Witness ==
    /\ frame.op = "updateLineLabels"
    /\ bucket.name = "pairs"
    /\ frame.trace[1].outcome = "useVertical"
    /\ isPlaced(frame.trace[2].outcome)
    /\ frame.trace[3].outcome = "skipped"
    /\ frame.trace[4].outcome = "skipped"
    /\ hiddenUntouched(4)

\* C23: a symbol whose hidden flag is set gets the sentinel for all its
\* glyphs, with no placement and no flipState update, whatever its writing
\* mode and whatever the symbol before it did.
C23_HiddenSkipped ==
    frame.op = "updateLineLabels" =>
        \A s \in DOMAIN frame.trace :
            bucket.placedSymbols[s].hidden
            => frame.trace[s].outcome = "skipped" /\ hiddenUntouched(s)

\* a hidden vertical-only symbol is taken through placement and its glyphs
\* are laid out
C23_Witness ==
    /\ frame.op = "updateLineLabels"
    /\ bucket.placedSymbols[1].hidden
    /\ verticalOnly(1)
    /\ isPlaced(frame.trace[1].outcome)
    /\ verticesOf(1)[1] # sentinel

\* The two points requiresOrientationChange got for symbol s in the frame:
\* the first and the last glyph in gl coordinates, or, for a single glyph, the
\* anchor and the end of its segment under posMatrix.
frameCamera == CameraOf(frame)

labelFontScale(s) ==
    (IF frameCamera.pitchWithMap
     THEN (bucket.textSize * 1000)
              \div getPerspectiveRatio(frameCamera.painter.transform.cameraToCenterDistance,
                                       anchorClip(s)[4])
     ELSE (bucket.textSize
              * getPerspectiveRatio(frameCamera.painter.transform.cameraToCenterDistance,
                                    anchorClip(s)[4])) \div 1000) \div ONE_EM

tileAnchorOf(s) == Pt(bucket.placedSymbols[s].tileAnchorX, bucket.placedSymbols[s].tileAnchorY)

firstAndLastOf(s, flip) ==
    placeFirstAndLastGlyph(labelFontScale(s), bucket.glyphOffsetArray, 0, 0, flip,
                           project(tileAnchorOf(s), frameCamera.labelPlaneMatrix, 0).point,
                           tileAnchorOf(s), bucket.placedSymbols[s], bucket.lineVertexArray,
                           frameCamera.labelPlaneMatrix, <<>>, FALSE)

firstPointOf(s) ==
    IF bucket.placedSymbols[s].numGlyphs > 1
    THEN project(firstAndLastOf(s, FALSE).first.point, frameCamera.glCoordMatrix, 0).point
    ELSE project(tileAnchorOf(s), frameCamera.posMatrix, 0).point

lastPointOf(s) ==
    IF bucket.placedSymbols[s].numGlyphs > 1
    THEN project(firstAndLastOf(s, FALSE).last.point, frameCamera.glCoordMatrix, 0).point
    ELSE segmentEnd(tileAnchorOf(s),
                    lineVertex(bucket.lineVertexArray,
                               bucket.placedSymbols[s].lineStartIndex
                                   + bucket.placedSymbols[s].segment + 1),
                    project(tileAnchorOf(s), frameCamera.posMatrix, 0).point,
                    frameCamera.posMatrix,
                    project(lineVertex(bucket.lineVertexArray,
                                       bucket.placedSymbols[s].lineStartIndex
                                           + bucket.placedSymbols[s].segment + 1),
                            frameCamera.posMatrix, 0))

\* the unflipped placement of symbol s called requiresOrientationChange
\* (keepUpright and flip = false) and wrote the flipState
orientationDecided(s) == keptUpright /\ frame.trace[s].writesUnflipped = 1

\* what it returned, as the frame shows it
returnedNeedsFlipping(s) == frame.trace[s].outcome \in {"flipped", "flippedNotEnoughRoom"}
returnedUseVertical(s) == frame.trace[s].outcome = "useVertical"

\* C24: for a vertical symbol, with keepUpright and flip = false,
\* requiresOrientationChange returns needsFlipping iff firstPoint.y <
\* lastPoint.y, whatever the flipState before and the retain range, and the
\* flipState written is flipRequired exactly then.
C24_VerticalFlip ==
    frame.op = "updateLineLabels" =>
        \A s \in DOMAIN frame.trace :
            (orientationDecided(s) /\ modeOf(s) = WritingMode.vertical) =>
                /\ returnedNeedsFlipping(s) <=> firstPointOf(s).y < lastPointOf(s).y
                /\ ~returnedUseVertical(s)
                /\ frame.trace[s].after =
                       IF firstPointOf(s).y < lastPointOf(s).y THEN FlipState.flipRequired
                       ELSE FlipState.flipNotRequired

\* a vertical symbol remembered as not flipped, inside the retain range and
\* running down the screen, is flipped
C24_Witness ==
    /\ frame.op = "updateLineLabels"
    /\ \E s \in DOMAIN frame.trace :
        /\ orientationDecided(s)
        /\ modeOf(s) = WritingMode.vertical
        /\ frame.trace[s].inRetain
        /\ frame.trace[s].before = FlipState.flipNotRequired
        /\ firstPointOf(s).y < lastPointOf(s).y
        /\ returnedNeedsFlipping(s)
        /\ frame.trace[s].after = FlipState.flipRequired

\* painter.transform.width / painter.transform.height of the frame, as the
\* pair [width, height]
frameAspectRatio ==
    [width |-> frameCamera.painter.transform.width,
     height |-> frameCamera.painter.transform.height]

\* |lastPoint.y - firstPoint.y| > |lastPoint.x - firstPoint.x| * aspectRatio
steeperThanAspect(s) ==
    Abs(lastPointOf(s).y - firstPointOf(s).y) * frameAspectRatio.height
    > Abs(lastPointOf(s).x - firstPointOf(s).x) * frameAspectRatio.width

\* dx = 0 or |dy / (dx * aspectRatio)| > tan(85 deg)
inRetainRange(s) ==
    \/ lastPointOf(s).x = firstPointOf(s).x
    \/ Abs(lastPointOf(s).y - firstPointOf(s).y) * frameAspectRatio.height * 1000
           > maxTangent * Abs(lastPointOf(s).x - firstPointOf(s).x) * frameAspectRatio.width

\* the general flip rule: the remembered decision inside the retain range,
\* the sign of firstPoint.x - lastPoint.x otherwise
generalRuleFlips(s) ==
    IF known(frame.trace[s].before) /\ inRetainRange(s)
    THEN frame.trace[s].before = FlipState.flipRequired
    ELSE firstPointOf(s).x > lastPointOf(s).x

\* all vertices of symbol s are the sentinel
allHidden(s) == \A i \in DOMAIN verticesOf(s) : verticesOf(s)[i] = sentinel

\* C25: a horizontal symbol, with keepUpright, whose points rise more than
\* they run times the aspect ratio returns useVertical: its glyphs are hidden,
\* no flipped placement is made and the symbol after it passes the gate;
\* otherwise the general flip rule decides it.
C25_UseVertical ==
    frame.op = "updateLineLabels" =>
        \A s \in DOMAIN frame.trace :
            (orientationDecided(s) /\ modeOf(s) = WritingMode.horizontal) =>
                IF steeperThanAspect(s)
                THEN /\ returnedUseVertical(s)
                     /\ allHidden(s)
                     /\ frame.trace[s].writesFlipped = 0
                     /\ (s + 1) \in DOMAIN frame.trace => frame.trace[s + 1].outcome # "skipped"
                ELSE /\ ~returnedUseVertical(s)
                     /\ returnedNeedsFlipping(s) <=> generalRuleFlips(s)

\* a horizontal symbol goes vertical, its glyphs are hidden and its vertical
\* counterpart is placed
C25_Witness ==
    /\ frame.op = "updateLineLabels"
    /\ bucket.name = "pair"
    /\ orientationDecided(1)
    /\ steeperThanAspect(1)
    /\ returnedUseVertical(1)
    /\ allHidden(1)
    /\ isPlaced(frame.trace[2].outcome)
    /\ ~allHidden(2)

\* C26: a symbol neither vertical nor switched to useVertical is flipped as
\* its known flipState says inside the retain range, and otherwise exactly
\* when firstPoint.x > lastPoint.x.
C26_GeneralRule ==
    frame.op = "updateLineLabels" =>
        \A s \in DOMAIN frame.trace :
            (/\ orientationDecided(s)
             /\ modeOf(s) # WritingMode.vertical
             /\ ~(modeOf(s) = WritingMode.horizontal /\ steeperThanAspect(s)))
            => /\ returnedNeedsFlipping(s) <=> generalRuleFlips(s)
               /\ frame.trace[s].after = IF generalRuleFlips(s) THEN FlipState.flipRequired
                                         ELSE FlipState.flipNotRequired

\* a label of unknown flipState whose two points have the same x is not flipped
C26_Witness ==
    /\ frame.op = "updateLineLabels"
    /\ \E s \in DOMAIN frame.trace :
        /\ orientationDecided(s)
        /\ modeOf(s) = WritingMode.horizontalOnly
        /\ frame.trace[s].before = FlipState.unknown
        /\ firstPointOf(s).x = lastPointOf(s).x
        /\ firstPointOf(s).y # lastPointOf(s).y
        /\ ~returnedNeedsFlipping(s)
        /\ frame.trace[s].after = FlipState.flipNotRequired

\* placeGlyphAlongLine with the arguments of the probed call but for the
\* offset and the projection cache
probeAt(offsetX, projectionCache) ==
    placeGlyphAlongLine(offsetX, last.args.lineOffsetX, 0, last.args.flip,
                        project(last.args.anchor.point, last.args.labelPlaneMatrix, 0).point,
                        last.args.anchor.point,
                        last.args.anchor.segment - last.args.lineStartIndex,
                        last.args.lineStartIndex, lineEndOf(last.args), GlyphLine,
                        last.args.labelPlaneMatrix, projectionCache, FALSE)

\* offset o lies between the offsets a and b
offsetBetween(o, a, b) == (a <= o /\ o <= b) \/ (b <= o /\ o <= a)

\* the glyph of the probed call being the first of a label and the glyph at
\* offset l its last, placed with the cache the first left: the glyph at o
\* is placed with the cache both left
interiorPlaced(l, o) ==
    probeAt(l, last.result.cache).placed
    => probeAt(o, probeAt(l, last.result.cache).cache).placed

outsideViewport ==
    \/ last.result.box[3] < viewportPadding * ONE
    \/ last.result.box[1] >= (transform.width + viewportPadding) * ONE
    \/ last.result.box[4] < viewportPadding * ONE
    \/ last.result.box[2] > (transform.height + viewportPadding) * ONE

\* C28: placeCollisionBox reports offscreen = false with the empty box of a
\* rejected candidate; for an accepted one offscreen tells exactly that the
\* box is outside the unpadded viewport, and occluded is false.
C28_Offscreen ==
    last.op = "placeCollisionBox" =>
        IF last.result.box = <<>>
        THEN ~last.result.offscreen
        ELSE /\ Len(last.result.box) = 4
             /\ last.result.offscreen <=> outsideViewport
             /\ ~last.result.occluded

\* a box accepted inside the padding of the grid, left of the viewport
C28_Witness ==
    /\ last.op = "placeCollisionBox"
    /\ last.result.box # <<>>
    /\ last.result.box[3] >= 0
    /\ last.result.box[3] < viewportPadding * ONE
    /\ last.result.offscreen
    /\ ~last.result.occluded

\* symbol s is a horizontal symbol and symbol s + 1 its vertical counterpart
pairAt(s) ==
    /\ (s + 1) \in DOMAIN bucket.placedSymbols
    /\ modeOf(s) = WritingMode.horizontal
    /\ modeOf(s + 1) = WritingMode.vertical

\* C29: of a horizontal symbol and the vertical counterpart right after it at
\* most one has placed glyphs after updateLineLabels; the vertical one passes
\* the gate only when the horizontal one returned useVertical, and then the
\* horizontal one is hidden.
C29_OneOfPair ==
    frame.op = "updateLineLabels" =>
        \A s \in DOMAIN frame.trace :
            pairAt(s) =>
                /\ allHidden(s) \/ allHidden(s + 1)
                /\ frame.trace[s + 1].outcome # "skipped"
                      => (returnedUseVertical(s) /\ allHidden(s))

\* in the first pair the horizontal symbol went vertical and is hidden while
\* its counterpart is laid out; in the second pair both are hidden
C29_Witness ==
    /\ keptUpright
    /\ bucket.name = "pairs"
    /\ pairAt(1) /\ pairAt(3)
    /\ returnedUseVertical(1)
    /\ allHidden(1)
    /\ ~allHidden(2)
    /\ allHidden(3) /\ allHidden(4)

\* the frame's call made once more on what it left, and once more after that
secondRun == updateLineLabels(bucket, dynamicLayout, frameCamera, frame.keepUpright)

thirdRun ==
    updateLineLabels([bucket EXCEPT !.placedSymbols = secondRun.placedSymbols],
                     secondRun.array, frameCamera, frame.keepUpright)

\* C30: a second identical run leaves every flipState as the first run left
\* it, a third run leaves the glyph output and the flip states of the second,
\* and a flipState that was written or known is not unknown afterwards.
C30_StableFrames ==
    frame.op = "updateLineLabels" =>
        /\ flipStates(secondRun.placedSymbols) = flipStates(bucket.placedSymbols)
        /\ thirdRun.array = secondRun.array
        /\ flipStates(thirdRun.placedSymbols) = flipStates(secondRun.placedSymbols)
        /\ \A s \in DOMAIN frame.trace :
            (writes(frame.trace[s]) > 0 \/ known(frame.trace[s].before))
            => known(frame.trace[s].after)

\* a label of unknown flipState, decided flipped inside the retain range by
\* the sign of x, stays flipped in the next identical run
C30_Witness ==
    /\ keptUpright
    /\ \E s \in DOMAIN frame.trace :
        /\ frame.trace[s].before = FlipState.unknown
        /\ frame.trace[s].inRetain
        /\ frame.trace[s].after = FlipState.flipRequired
        /\ secondRun.placedSymbols[s].flipState = FlipState.flipRequired
        /\ secondRun.trace[s].inRetain
    /\ secondRun.array = dynamicLayout

====
